---- MODULE Spec2Model ----
(***************************************************************************)
(* Domain staking ledger of pallet-domains (crates/pallet-domains/src/     *)
(* staking.rs): operator registration, nomination, domain switch,          *)
(* deregistration and withdrawal intents, over the storage maps of the     *)
(* pallet and the host currency's freezes (specification Spec); and the    *)
(* header importer of sp-lightclient (crates/sp-lightclient/src/lib.rs):   *)
(* import_header over a header store (specifications SpecImport and        *)
(* SpecChain), with the ancestor lookup and the pruning of a chain; and the *)
(* disk piece cache of subspace-farmer, as its format and operations are    *)
(* specified and as crates/subspace-farmer/src/piece_cache/tests.rs uses    *)
(* it (specification SpecCache), alone and shared by reader and writer      *)
(* threads (specification SpecShared).                                      *)
(***************************************************************************)
EXTENDS Integers, Sequences, FiniteSets, TLC

\* ------------------------------------------------------------------ bounds
\* OperatorId is a u64: MaxOperatorId stands for u64::MAX.
MaxOperatorId == 2
\* Balance is a u128: MaxBalance stands for u128::MAX.
MaxBalance == 6
\* Longest PendingOperatorSwitches list the model follows.
MaxPending == 2
\* Most headers imported into one store on top of the genesis header.
MaxHeaders == 3
\* The weight of a block is a u64: MaxBlockWeight stands for u64::MAX.
MaxBlockWeight == 2
\* the greatest capacity a piece cache is opened with
MaxCapacity == 2

\* ------------------------------------------------------- program constants
\* T::MinOperatorStake of the host runtime.
MinOperatorStake == 2
\* Perbill::ACCURACY: parts per billion.
PerbillAccuracy == 1000000000

OperatorIds == 0..MaxOperatorId
Accounts == {0, 1}
DomainIds == {0, 1}
Balances == 0..MaxBalance

\* Option<T>: None is the empty sequence, Some(v) the one-element sequence.
None == <<>>
Some(v) == <<v>>
IsSome(o) == o # <<>>
Unwrap(o) == o[1]

\* enum Withdraw<Balance> { All, Some(Balance) }
WithdrawAll == [kind |-> "All", amount |-> 0]
WithdrawSome(b) == [kind |-> "Some", amount |-> b]

\* struct OperatorConfig: the configurations callers register with.
OperatorConfigs ==
    { [signing_key |-> "key0", minimum_nominator_stake |-> 0, nomination_tax |-> 0],
      [signing_key |-> "key1", minimum_nominator_stake |-> 2, nomination_tax |-> 5] }

VARIABLES
    NextOperatorId,                 \* StorageValue<OperatorId>
    OperatorIdOwner,                \* OperatorId -> Option<AccountId>
    OperatorPools,                  \* OperatorId -> Option<OperatorPool>
    Nominators,                     \* (OperatorId, AccountId) -> Option<Nominator>
    PendingDeposits,                \* (OperatorId, AccountId) -> Option<Balance>
    PendingWithdrawals,             \* (OperatorId, AccountId) -> Option<Withdraw>
    DomainStakingSummary,           \* DomainId -> Option<StakingSummary>
    PendingOperatorSwitches,        \* DomainId -> Option<Vec<OperatorId>>
    PendingOperatorDeregistrations, \* Option<Vec<OperatorId>>
    FreeBalance,                    \* host currency: AccountId -> free balance
    Freezes,                        \* host currency: (freeze id of OperatorId, AccountId) -> frozen
    lastOk,                         \* the last extrinsic that returned Ok, and its return value
    store,                          \* the header store: stored HeaderExt, best and finalized hash
    lastImport,                     \* the last import_header that returned Ok
    file,                           \* the backing file of the piece cache: None, or its records
    cache,                          \* the PieceCache handle: None, or its capacity
    written,                        \* offset -> the last write since the file was created, if any,
                                    \* and whether it replaced a piece
    lastCache,                      \* the last piece cache call that returned Ok
    writers,                        \* offset -> the write_piece call in progress there, if any
    readers                         \* reader -> its read of a slot: in progress or returned

vars == << NextOperatorId, OperatorIdOwner, OperatorPools, Nominators, PendingDeposits,
           PendingWithdrawals, DomainStakingSummary, PendingOperatorSwitches,
           PendingOperatorDeregistrations, FreeBalance, Freezes, lastOk, store, lastImport,
           file, cache, written, lastCache, writers, readers >>

\* The storage as one value: what an extrinsic reads and what it leaves.
Storage ==
    [ NextOperatorId |-> NextOperatorId,
      OperatorIdOwner |-> OperatorIdOwner,
      OperatorPools |-> OperatorPools,
      Nominators |-> Nominators,
      PendingDeposits |-> PendingDeposits,
      PendingWithdrawals |-> PendingWithdrawals,
      DomainStakingSummary |-> DomainStakingSummary,
      PendingOperatorSwitches |-> PendingOperatorSwitches,
      PendingOperatorDeregistrations |-> PendingOperatorDeregistrations,
      FreeBalance |-> FreeBalance,
      Freezes |-> Freezes ]

\* Result<T, Error> of a call, with the storage the call leaves behind.
Ok(s, v) == [res |-> "Ok", ret |-> Some(v), st |-> s]
Err(s, e) == [res |-> e, ret |-> None, st |-> s]

\* -------------------------------------------------------- host currency
\* The largest of a function's values over a set, 0 over the empty set.
MaxOver(f, S) ==
    IF S = {} THEN 0 ELSE CHOOSE m \in {f[x] : x \in S} : \A x \in S : f[x] <= m

\* The frozen balance of who in Balances, the Currency of the ledger's
\* runtime: freezes overlay, the account's frozen amount is the largest of
\* the amounts frozen under its freeze identities.
total_frozen(s, who) ==
    MaxOver([o \in OperatorIds |-> s.Freezes[<<o, who>>]], OperatorIds)

\* T::Currency::reducible_balance(who, Protect, Polite): the free balance less
\* what is frozen on the account.
reducible_balance(s, who) ==
    IF s.FreeBalance[who] > total_frozen(s, who)
    THEN s.FreeBalance[who] - total_frozen(s, who) ELSE 0

\* T::Currency::balance_frozen(&freeze_id, who)
balance_frozen(s, operator_id, who) == s.Freezes[<<operator_id, who>>]

freeze_account_balance_to_operator(s, who, operator_id, amount, set_freeze_ok) ==
    IF reducible_balance(s, who) < amount THEN Err(s, "InsufficientBalance")
    ELSE LET current_locked_balance == balance_frozen(s, operator_id, who)
             balance_to_be_locked == current_locked_balance + amount
         IN IF balance_to_be_locked > MaxBalance THEN Err(s, "BalanceOverflow")
            ELSE IF ~set_freeze_ok THEN Err(s, "BalanceFreeze")
            ELSE Ok([s EXCEPT !.Freezes[<<operator_id, who>>] = balance_to_be_locked], TRUE)

\* --------------------------------------------------------------- Perbill
\* floor(p * 10^k / q) by long division, one decimal digit at a time.
RECURSIVE ScaleDiv(_, _, _, _)
ScaleDiv(quot, rem, q, k) ==
    IF k = 0 THEN quot
    ELSE ScaleDiv(quot * 10 + ((rem * 10) \div q), (rem * 10) % q, q, k - 1)

\* Perbill::from_rational(p, q): parts per billion of p / q, rounded down;
\* one() when q is zero or p > q.
Perbill_from_rational(p, q) ==
    IF q = 0 \/ p > q THEN PerbillAccuracy
    ELSE ScaleDiv(p \div q, p % q, q, 9)

\* Perbill * x: x * parts / 10^9 rounded to the nearest, a tie rounded down.
\* The product is taken in two halves of the parts so that it stays in range.
Perbill_mul(parts, x) ==
    LET hi == (parts \div 100000) * x
        lo == (parts % 100000) * x
        low == (hi % 10000) * 100000 + lo
        whole == (hi \div 10000) + (low \div PerbillAccuracy)
        rem == low % PerbillAccuracy
    IN IF rem > PerbillAccuracy \div 2 THEN whole + 1 ELSE whole

\* ----------------------------------------------------------- staking.rs
\* The counter is stored back without the increment.
next_operator_id_stuck(operator_id) ==
    IF operator_id = MaxOperatorId THEN None ELSE Some(operator_id)

\* operator_id.checked_add(1)
next_operator_id(operator_id) ==
    IF operator_id = MaxOperatorId THEN None ELSE Some(operator_id + 1)

\* The deposit is counted as stake of the new pool at once.
do_register_operator_staked(s, operator_owner, domain_id, amount, config, set_freeze_ok) ==
    LET operator_id == s.NextOperatorId
    IN IF ~IsSome(next_operator_id(operator_id)) THEN Err(s, "MaximumOperatorId")
       ELSE
       LET s1 == [s EXCEPT !.NextOperatorId = Unwrap(next_operator_id(operator_id)),
                           !.OperatorIdOwner[operator_id] = Some(operator_owner)]
       IN IF amount < MinOperatorStake THEN Err(s1, "MinimumOperatorStake")
          ELSE
          LET f == freeze_account_balance_to_operator(s1, operator_owner, operator_id,
                                                      amount, set_freeze_ok)
          IN IF f.res # "Ok" THEN Err(f.st, f.res)
             ELSE IF ~IsSome(s.DomainStakingSummary[domain_id])
             THEN Err(f.st, "DomainNotInitialized")
             ELSE
             LET domain_stake_summary == Unwrap(s.DomainStakingSummary[domain_id])
                 operator ==
                     [ signing_key |-> config.signing_key,
                       current_domain_id |-> domain_id,
                       next_domain_id |-> domain_id,
                       minimum_nominator_stake |-> config.minimum_nominator_stake,
                       nomination_tax |-> config.nomination_tax,
                       current_total_stake |-> amount,
                       current_epoch_rewards |-> 0,
                       total_shares |-> 0,
                       is_frozen |-> FALSE ]
             IN Ok([f.st EXCEPT
                      !.OperatorPools[operator_id] = Some(operator),
                      !.DomainStakingSummary[domain_id] =
                          Some([domain_stake_summary EXCEPT
                                  !.next_operators = Append(@, operator_id)]),
                      !.PendingDeposits[<<operator_id, operator_owner>>] = Some(amount)],
                   operator_id)

do_register_operator(s, operator_owner, domain_id, amount, config, set_freeze_ok) ==
    LET operator_id == s.NextOperatorId
    IN IF ~IsSome(next_operator_id(operator_id)) THEN Err(s, "MaximumOperatorId")
       ELSE
       LET s1 == [s EXCEPT !.NextOperatorId = Unwrap(next_operator_id(operator_id)),
                           !.OperatorIdOwner[operator_id] = Some(operator_owner)]
       IN IF amount < MinOperatorStake THEN Err(s1, "MinimumOperatorStake")
          ELSE
          LET f == freeze_account_balance_to_operator(s1, operator_owner, operator_id,
                                                      amount, set_freeze_ok)
          IN IF f.res # "Ok" THEN Err(f.st, f.res)
             ELSE IF ~IsSome(s.DomainStakingSummary[domain_id])
             THEN Err(f.st, "DomainNotInitialized")
             ELSE
             LET domain_stake_summary == Unwrap(s.DomainStakingSummary[domain_id])
                 operator ==
                     [ signing_key |-> config.signing_key,
                       current_domain_id |-> domain_id,
                       next_domain_id |-> domain_id,
                       minimum_nominator_stake |-> config.minimum_nominator_stake,
                       nomination_tax |-> config.nomination_tax,
                       current_total_stake |-> 0,
                       current_epoch_rewards |-> 0,
                       total_shares |-> 0,
                       is_frozen |-> FALSE ]
             IN Ok([f.st EXCEPT
                      !.OperatorPools[operator_id] = Some(operator),
                      !.DomainStakingSummary[domain_id] =
                          Some([domain_stake_summary EXCEPT
                                  !.next_operators = Append(@, operator_id)]),
                      !.PendingDeposits[<<operator_id, operator_owner>>] = Some(amount)],
                   operator_id)

\* do_nominate_operator recording the deposit before the balance is frozen.
do_nominate_operator_eager(s, operator_id, nominator_id, amount, set_freeze_ok) ==
    IF ~IsSome(s.OperatorPools[operator_id]) THEN Err(s, "UnknownOperator")
    ELSE
    LET operator_pool == Unwrap(s.OperatorPools[operator_id])
        existing == s.PendingDeposits[<<operator_id, nominator_id>>]
        updated_total_deposit ==
            IF IsSome(existing) THEN Unwrap(existing) + amount ELSE amount
    IN IF operator_pool.is_frozen THEN Err(s, "OperatorPoolFrozen")
       ELSE IF updated_total_deposit > MaxBalance THEN Err(s, "BalanceOverflow")
       ELSE IF updated_total_deposit < operator_pool.minimum_nominator_stake
       THEN Err(s, "MinimumNominatorStake")
       ELSE
       LET s1 == [s EXCEPT !.PendingDeposits[<<operator_id, nominator_id>>] =
                               Some(updated_total_deposit)]
           f == freeze_account_balance_to_operator(s1, nominator_id, operator_id,
                                                   amount, set_freeze_ok)
       IN IF f.res # "Ok" THEN Err(f.st, f.res) ELSE Ok(f.st, TRUE)

\* do_nominate_operator without the frozen check.
do_nominate_operator_unchecked(s, operator_id, nominator_id, amount, set_freeze_ok) ==
    IF ~IsSome(s.OperatorPools[operator_id]) THEN Err(s, "UnknownOperator")
    ELSE
    LET operator_pool == Unwrap(s.OperatorPools[operator_id])
        existing == s.PendingDeposits[<<operator_id, nominator_id>>]
        updated_total_deposit ==
            IF IsSome(existing) THEN Unwrap(existing) + amount ELSE amount
    IN IF updated_total_deposit > MaxBalance THEN Err(s, "BalanceOverflow")
       ELSE IF updated_total_deposit < operator_pool.minimum_nominator_stake
       THEN Err(s, "MinimumNominatorStake")
       ELSE
       LET f == freeze_account_balance_to_operator(s, nominator_id, operator_id,
                                                   amount, set_freeze_ok)
       IN IF f.res # "Ok" THEN Err(f.st, f.res)
          ELSE Ok([f.st EXCEPT !.PendingDeposits[<<operator_id, nominator_id>>] =
                                   Some(updated_total_deposit)], TRUE)

\* The deposit is added to the stake of the pool at once.
do_nominate_operator_staked(s, operator_id, nominator_id, amount, set_freeze_ok) ==
    IF ~IsSome(s.OperatorPools[operator_id]) THEN Err(s, "UnknownOperator")
    ELSE
    LET operator_pool == Unwrap(s.OperatorPools[operator_id])
        existing == s.PendingDeposits[<<operator_id, nominator_id>>]
    IN IF operator_pool.is_frozen THEN Err(s, "OperatorPoolFrozen")
       ELSE IF IsSome(existing) /\ Unwrap(existing) + amount > MaxBalance
       THEN Err(s, "BalanceOverflow")
       ELSE
       LET updated_total_deposit ==
               IF IsSome(existing) THEN Unwrap(existing) + amount ELSE amount
       IN IF updated_total_deposit < operator_pool.minimum_nominator_stake
          THEN Err(s, "MinimumNominatorStake")
          ELSE
          LET f == freeze_account_balance_to_operator(s, nominator_id, operator_id,
                                                      amount, set_freeze_ok)
          IN IF f.res # "Ok" THEN Err(f.st, f.res)
             ELSE Ok([f.st EXCEPT !.PendingDeposits[<<operator_id, nominator_id>>] =
                                      Some(updated_total_deposit),
                                  !.OperatorPools[operator_id] =
                                      Some([operator_pool EXCEPT
                                              !.current_total_stake = @ + amount])], TRUE)

\* do_nominate_operator freezing the updated total deposit on top of what is
\* frozen.
do_nominate_operator_total(s, operator_id, nominator_id, amount, set_freeze_ok) ==
    IF ~IsSome(s.OperatorPools[operator_id]) THEN Err(s, "UnknownOperator")
    ELSE
    LET operator_pool == Unwrap(s.OperatorPools[operator_id])
        existing == s.PendingDeposits[<<operator_id, nominator_id>>]
        updated_total_deposit ==
            IF IsSome(existing) THEN Unwrap(existing) + amount ELSE amount
    IN IF operator_pool.is_frozen THEN Err(s, "OperatorPoolFrozen")
       ELSE IF updated_total_deposit > MaxBalance THEN Err(s, "BalanceOverflow")
       ELSE IF updated_total_deposit < operator_pool.minimum_nominator_stake
       THEN Err(s, "MinimumNominatorStake")
       ELSE
       LET f == freeze_account_balance_to_operator(s, nominator_id, operator_id,
                                                   updated_total_deposit, set_freeze_ok)
       IN IF f.res # "Ok" THEN Err(f.st, f.res)
          ELSE Ok([f.st EXCEPT !.PendingDeposits[<<operator_id, nominator_id>>] =
                                   Some(updated_total_deposit)], TRUE)

\* do_nominate_operator holding each amount, not the updated total, against
\* the pool's minimum.
do_nominate_operator_each(s, operator_id, nominator_id, amount, set_freeze_ok) ==
    IF ~IsSome(s.OperatorPools[operator_id]) THEN Err(s, "UnknownOperator")
    ELSE
    LET operator_pool == Unwrap(s.OperatorPools[operator_id])
        existing == s.PendingDeposits[<<operator_id, nominator_id>>]
        updated_total_deposit ==
            IF IsSome(existing) THEN Unwrap(existing) + amount ELSE amount
    IN IF operator_pool.is_frozen THEN Err(s, "OperatorPoolFrozen")
       ELSE IF updated_total_deposit > MaxBalance THEN Err(s, "BalanceOverflow")
       ELSE IF amount < operator_pool.minimum_nominator_stake
       THEN Err(s, "MinimumNominatorStake")
       ELSE
       LET f == freeze_account_balance_to_operator(s, nominator_id, operator_id,
                                                   amount, set_freeze_ok)
       IN IF f.res # "Ok" THEN Err(f.st, f.res)
          ELSE Ok([f.st EXCEPT !.PendingDeposits[<<operator_id, nominator_id>>] =
                                   Some(updated_total_deposit)], TRUE)

do_nominate_operator(s, operator_id, nominator_id, amount, set_freeze_ok) ==
    IF ~IsSome(s.OperatorPools[operator_id]) THEN Err(s, "UnknownOperator")
    ELSE
    LET operator_pool == Unwrap(s.OperatorPools[operator_id])
        existing == s.PendingDeposits[<<operator_id, nominator_id>>]
    IN IF operator_pool.is_frozen THEN Err(s, "OperatorPoolFrozen")
       ELSE IF IsSome(existing) /\ Unwrap(existing) + amount > MaxBalance
       THEN Err(s, "BalanceOverflow")
       ELSE
       LET updated_total_deposit ==
               IF IsSome(existing) THEN Unwrap(existing) + amount ELSE amount
       IN IF updated_total_deposit < operator_pool.minimum_nominator_stake
          THEN Err(s, "MinimumNominatorStake")
          ELSE
          LET f == freeze_account_balance_to_operator(s, nominator_id, operator_id,
                                                      amount, set_freeze_ok)
          IN IF f.res # "Ok" THEN Err(f.st, f.res)
             ELSE Ok([f.st EXCEPT !.PendingDeposits[<<operator_id, nominator_id>>] =
                                      Some(updated_total_deposit)], TRUE)

\* Nothing is removed from the vector.
retain_all(v, operator_id) == v

\* Vec::retain(|val| *val != operator_id)
retain_not(v, operator_id) == SelectSeq(v, LAMBDA val : val # operator_id)

\* The stored vector is replaced by the new element alone.
storage_insert(o, x) == Some(<<x>>)

\* StorageMap::append: push onto the stored vector, an absent one being empty.
storage_append(o, x) == IF IsSome(o) THEN Some(Append(Unwrap(o), x)) ELSE Some(<<x>>)

\* The new domain is looked up before the caller is compared with the owner.
do_switch_operator_domain_domain_first(s, operator_owner, operator_id, new_domain_id) ==
    IF ~IsSome(s.DomainStakingSummary[new_domain_id]) THEN Err(s, "DomainNotInitialized")
    ELSE IF s.OperatorIdOwner[operator_id] # Some(operator_owner) THEN Err(s, "NotOperatorOwner")
    ELSE IF ~IsSome(s.OperatorPools[operator_id]) THEN Err(s, "UnknownOperator")
    ELSE
    LET pool == Unwrap(s.OperatorPools[operator_id])
    IN IF pool.is_frozen THEN Err(s, "OperatorPoolFrozen")
       ELSE
       LET operator_pool == [pool EXCEPT !.next_domain_id = new_domain_id]
           current == operator_pool.current_domain_id
       IN \* the pool is written back only when the closure returns Ok
          IF ~IsSome(s.DomainStakingSummary[current]) THEN Err(s, "DomainNotInitialized")
          ELSE
          LET stake_summary == Unwrap(s.DomainStakingSummary[current])
          IN Ok([s EXCEPT
                   !.DomainStakingSummary[current] =
                       Some([stake_summary EXCEPT
                               !.next_operators = retain_not(@, operator_id)]),
                   !.PendingOperatorSwitches[current] = storage_append(@, operator_id),
                   !.OperatorPools[operator_id] = Some(operator_pool)],
                current)

do_switch_operator_domain(s, operator_owner, operator_id, new_domain_id) ==
    IF s.OperatorIdOwner[operator_id] # Some(operator_owner) THEN Err(s, "NotOperatorOwner")
    ELSE IF ~IsSome(s.DomainStakingSummary[new_domain_id]) THEN Err(s, "DomainNotInitialized")
    ELSE IF ~IsSome(s.OperatorPools[operator_id]) THEN Err(s, "UnknownOperator")
    ELSE
    LET pool == Unwrap(s.OperatorPools[operator_id])
    IN IF pool.is_frozen THEN Err(s, "OperatorPoolFrozen")
       ELSE
       LET operator_pool == [pool EXCEPT !.next_domain_id = new_domain_id]
           current == operator_pool.current_domain_id
       IN \* the pool is written back only when the closure returns Ok
          IF ~IsSome(s.DomainStakingSummary[current]) THEN Err(s, "DomainNotInitialized")
          ELSE
          LET stake_summary == Unwrap(s.DomainStakingSummary[current])
          IN Ok([s EXCEPT
                   !.DomainStakingSummary[current] =
                       Some([stake_summary EXCEPT
                               !.next_operators = retain_not(@, operator_id)]),
                   !.PendingOperatorSwitches[current] = storage_append(@, operator_id),
                   !.OperatorPools[operator_id] = Some(operator_pool)],
                current)

\* do_deregister_operator without the frozen check: a frozen pool is
\* deregistered again.
do_deregister_operator_unchecked(s, operator_owner, operator_id) ==
    IF s.OperatorIdOwner[operator_id] # Some(operator_owner) THEN Err(s, "NotOperatorOwner")
    ELSE IF ~IsSome(s.OperatorPools[operator_id]) THEN Err(s, "UnknownOperator")
    ELSE
    LET operator_pool == [Unwrap(s.OperatorPools[operator_id]) EXCEPT !.is_frozen = TRUE]
        current == operator_pool.current_domain_id
    IN IF ~IsSome(s.DomainStakingSummary[current]) THEN Err(s, "DomainNotInitialized")
       ELSE Ok([s EXCEPT
                  !.DomainStakingSummary[current] =
                      Some([Unwrap(s.DomainStakingSummary[current]) EXCEPT
                              !.next_operators = retain_not(@, operator_id)]),
                  !.PendingOperatorDeregistrations = storage_append(@, operator_id),
                  !.OperatorPools[operator_id] = Some(operator_pool)],
               TRUE)

do_deregister_operator(s, operator_owner, operator_id) ==
    IF s.OperatorIdOwner[operator_id] # Some(operator_owner) THEN Err(s, "NotOperatorOwner")
    ELSE IF ~IsSome(s.OperatorPools[operator_id]) THEN Err(s, "UnknownOperator")
    ELSE
    LET pool == Unwrap(s.OperatorPools[operator_id])
    IN IF pool.is_frozen THEN Err(s, "OperatorPoolFrozen")
       ELSE
       LET operator_pool == [pool EXCEPT !.is_frozen = TRUE]
           current == operator_pool.current_domain_id
       IN \* the pool is written back only when the closure returns Ok
          IF ~IsSome(s.DomainStakingSummary[current]) THEN Err(s, "DomainNotInitialized")
          ELSE
          LET stake_summary == Unwrap(s.DomainStakingSummary[current])
          IN Ok([s EXCEPT
                   !.DomainStakingSummary[current] =
                       Some([stake_summary EXCEPT
                               !.next_operators = retain_not(@, operator_id)]),
                   !.PendingOperatorDeregistrations = storage_append(@, operator_id),
                   !.OperatorPools[operator_id] = Some(operator_pool)],
                TRUE)

\* A new partial intent replaces the stored one instead of being added to it.
combine_withdraw_latest(existing, withdraw) ==
    IF ~IsSome(existing) THEN [res |-> "Ok", w |-> withdraw]
    ELSE IF Unwrap(existing).kind = "All" THEN [res |-> "ExistingFullWithdraw", w |-> withdraw]
    ELSE [res |-> "Ok", w |-> withdraw]

\* A stored full withdrawal is overwritten by the new intent.
combine_withdraw_reopen(existing, withdraw) ==
    IF ~IsSome(existing) THEN [res |-> "Ok", w |-> withdraw]
    ELSE IF Unwrap(existing).kind = "All" THEN [res |-> "Ok", w |-> withdraw]
    ELSE IF withdraw.kind = "All" THEN [res |-> "Ok", w |-> WithdrawAll]
    ELSE IF Unwrap(existing).amount + withdraw.amount > MaxBalance
    THEN [res |-> "BalanceOverflow", w |-> withdraw]
    ELSE [res |-> "Ok", w |-> WithdrawSome(Unwrap(existing).amount + withdraw.amount)]

\* The match on (existing_withdraw, withdraw) of do_withdraw_stake: the intent
\* the floor rules are applied to, or the error of the combination.
combine_withdraw(existing, withdraw) ==
    IF ~IsSome(existing) THEN [res |-> "Ok", w |-> withdraw]
    ELSE IF Unwrap(existing).kind = "All" THEN [res |-> "ExistingFullWithdraw", w |-> withdraw]
    ELSE IF withdraw.kind = "All" THEN [res |-> "Ok", w |-> WithdrawAll]
    ELSE IF Unwrap(existing).amount + withdraw.amount > MaxBalance
    THEN [res |-> "BalanceOverflow", w |-> withdraw]
    ELSE [res |-> "Ok", w |-> WithdrawSome(Unwrap(existing).amount + withdraw.amount)]

\* nominator_share * total_pool_stake of do_withdraw_stake.
nominator_staked_amount(operator_pool, nominator) ==
    Perbill_mul(Perbill_from_rational(nominator.shares, operator_pool.total_shares),
                operator_pool.current_total_stake + operator_pool.current_epoch_rewards)

\* The owner may withdraw everything.
withdraw_all_floor_open(operator_owner, nominator_id, withdraw) ==
    [res |-> "Ok", w |-> withdraw]

\* The Withdraw::All arm of do_withdraw_stake: refused to the pool owner.
withdraw_all_floor(operator_owner, nominator_id, withdraw) ==
    IF operator_owner = nominator_id
    THEN [res |-> "MinimumOperatorStake", w |-> withdraw]
    ELSE [res |-> "Ok", w |-> withdraw]

\* No floor for the owner's remaining stake.
withdraw_some_floor_unbounded(operator_pool, operator_owner, nominator_id, nominator_remaining_amount, withdraw) ==
    IF operator_owner = nominator_id
    THEN [res |-> "Ok", w |-> withdraw]
    ELSE IF nominator_remaining_amount < operator_pool.minimum_nominator_stake
    THEN [res |-> "Ok", w |-> WithdrawAll]
    ELSE [res |-> "Ok", w |-> withdraw]

\* No promotion of a nominator's partial withdrawal to a full one.
withdraw_some_floor_unpromoted(operator_pool, operator_owner, nominator_id, nominator_remaining_amount, withdraw) ==
    IF operator_owner = nominator_id
    THEN IF nominator_remaining_amount < MinOperatorStake
         THEN [res |-> "MinimumOperatorStake", w |-> withdraw]
         ELSE [res |-> "Ok", w |-> withdraw]
    ELSE [res |-> "Ok", w |-> withdraw]

\* The owner's partial withdrawal is promoted to a full one as a nominator's is.
withdraw_some_floor_promoting(operator_pool, operator_owner, nominator_id, nominator_remaining_amount, withdraw) ==
    IF operator_owner = nominator_id
    THEN IF nominator_remaining_amount < MinOperatorStake
         THEN [res |-> "Ok", w |-> WithdrawAll]
         ELSE [res |-> "Ok", w |-> withdraw]
    ELSE IF nominator_remaining_amount < operator_pool.minimum_nominator_stake
    THEN [res |-> "Ok", w |-> WithdrawAll]
    ELSE [res |-> "Ok", w |-> withdraw]

\* The floor rules of the Withdraw::Some arm of do_withdraw_stake, on the
\* amount that remains after the withdrawal.
withdraw_some_floor(operator_pool, operator_owner, nominator_id, nominator_remaining_amount, withdraw) ==
    IF operator_owner = nominator_id
    THEN IF nominator_remaining_amount < MinOperatorStake
         THEN [res |-> "MinimumOperatorStake", w |-> withdraw]
         ELSE [res |-> "Ok", w |-> withdraw]
    ELSE IF nominator_remaining_amount < operator_pool.minimum_nominator_stake
    THEN [res |-> "Ok", w |-> WithdrawAll]
    ELSE [res |-> "Ok", w |-> withdraw]

\* A nominator asking for more than the stake withdraws everything.
store_withdraw_promoting(s, operator_pool, nominator, operator_owner, operator_id, nominator_id, withdraw) ==
    LET key == <<operator_id, nominator_id>>
        stored(f) == IF f.res = "Ok"
                     THEN Ok([s EXCEPT !.PendingWithdrawals[key] = Some(f.w)], TRUE)
                     ELSE Err(s, f.res)
    IN IF withdraw.kind = "All"
       THEN stored(withdraw_all_floor(operator_owner, nominator_id, withdraw))
       ELSE LET staked == nominator_staked_amount(operator_pool, nominator)
            IN IF staked < withdraw.amount
               THEN IF operator_owner = nominator_id THEN Err(s, "BalanceUnderflow")
                    ELSE stored([res |-> "Ok", w |-> WithdrawAll])
               ELSE stored(withdraw_some_floor(operator_pool, operator_owner, nominator_id,
                                               staked - withdraw.amount, withdraw))

\* The match on the combined intent of do_withdraw_stake: the checked
\* arithmetic, the floor rules and the PendingWithdrawals entry they store.
store_withdraw(s, operator_pool, nominator, operator_owner, operator_id, nominator_id, withdraw) ==
    LET key == <<operator_id, nominator_id>>
        stored(f) == IF f.res = "Ok"
                     THEN Ok([s EXCEPT !.PendingWithdrawals[key] = Some(f.w)], TRUE)
                     ELSE Err(s, f.res)
    IN IF withdraw.kind = "All"
       THEN stored(withdraw_all_floor(operator_owner, nominator_id, withdraw))
       ELSE IF operator_pool.current_total_stake + operator_pool.current_epoch_rewards
                   > MaxBalance
       THEN Err(s, "BalanceOverflow")
       ELSE LET staked == nominator_staked_amount(operator_pool, nominator)
            IN IF staked < withdraw.amount THEN Err(s, "BalanceUnderflow")
               ELSE stored(withdraw_some_floor(operator_pool, operator_owner, nominator_id,
                                               staked - withdraw.amount, withdraw))

\* do_withdraw_stake looking at the pending withdrawal first.
do_withdraw_stake_pending_first(s, operator_id, nominator_id, withdraw) ==
    LET key == <<operator_id, nominator_id>>
        combined == combine_withdraw(s.PendingWithdrawals[key], withdraw)
    IN IF combined.res # "Ok" THEN Err(s, combined.res)
       ELSE IF ~IsSome(s.OperatorPools[operator_id]) THEN Err(s, "UnknownOperator")
       ELSE IF Unwrap(s.OperatorPools[operator_id]).is_frozen
       THEN Err(s, "OperatorPoolFrozen")
       ELSE IF ~IsSome(s.Nominators[key]) THEN Err(s, "UnknownNominator")
       ELSE IF ~IsSome(s.OperatorIdOwner[operator_id]) THEN Err(s, "UnknownOperator")
       ELSE store_withdraw(s, Unwrap(s.OperatorPools[operator_id]), Unwrap(s.Nominators[key]),
                           Unwrap(s.OperatorIdOwner[operator_id]),
                           operator_id, nominator_id, combined.w)

do_withdraw_stake(s, operator_id, nominator_id, withdraw) ==
    IF ~IsSome(s.OperatorPools[operator_id]) THEN Err(s, "UnknownOperator")
    ELSE
    LET operator_pool == Unwrap(s.OperatorPools[operator_id])
        key == <<operator_id, nominator_id>>
    IN IF operator_pool.is_frozen THEN Err(s, "OperatorPoolFrozen")
       ELSE IF ~IsSome(s.Nominators[key]) THEN Err(s, "UnknownNominator")
       ELSE IF ~IsSome(s.OperatorIdOwner[operator_id]) THEN Err(s, "UnknownOperator")
       ELSE
       LET combined == combine_withdraw(s.PendingWithdrawals[key], withdraw)
       IN IF combined.res # "Ok" THEN Err(s, combined.res)
          ELSE store_withdraw(s, operator_pool, Unwrap(s.Nominators[key]),
                              Unwrap(s.OperatorIdOwner[operator_id]),
                              operator_id, nominator_id, combined.w)

\* ------------------------------------------------------------ extrinsics
\* No storage layer: the writes of a failed call stay.
without_storage_layer(s, r) == r

\* The storage layer every dispatchable runs in: the writes of a call that
\* returns an error are discarded.
with_storage_layer(s, r) == IF r.res = "Ok" THEN r ELSE [r EXCEPT !.st = s]

Commit(s) ==
    /\ NextOperatorId' = s.NextOperatorId
    /\ OperatorIdOwner' = s.OperatorIdOwner
    /\ OperatorPools' = s.OperatorPools
    /\ Nominators' = s.Nominators
    /\ PendingDeposits' = s.PendingDeposits
    /\ PendingWithdrawals' = s.PendingWithdrawals
    /\ DomainStakingSummary' = s.DomainStakingSummary
    /\ PendingOperatorSwitches' = s.PendingOperatorSwitches
    /\ PendingOperatorDeregistrations' = s.PendingOperatorDeregistrations
    /\ FreeBalance' = s.FreeBalance
    /\ Freezes' = s.Freezes
    /\ UNCHANGED <<store, lastImport, file, cache, written, lastCache, writers, readers>>

NoConfig == [signing_key |-> "", minimum_nominator_stake |-> 0, nomination_tax |-> 0]

Call(op, who, operator_id, domain_id, amount, withdraw, config, r) ==
    [ op |-> op, who |-> who, operator_id |-> operator_id, domain_id |-> domain_id,
      amount |-> amount, withdraw |-> withdraw, config |-> config,
      ret |-> r.ret ]

\* A call that returns an error leaves nothing behind.
Record(r, call) == lastOk' = IF r.res = "Ok" THEN call ELSE lastOk

\* The amounts and intents callers pass.
StakeAmounts == {1, 2, MaxBalance}
WithdrawIntents == {WithdrawAll} \cup {WithdrawSome(b) : b \in StakeAmounts \cup {4}}

register_operator(operator_owner, domain_id, amount, config, set_freeze_ok) ==
    LET r == with_storage_layer(Storage,
                 do_register_operator(Storage, operator_owner, domain_id, amount, config,
                                      set_freeze_ok))
    IN /\ Commit(r.st)
       /\ Record(r, Call("register_operator", operator_owner, NextOperatorId, domain_id,
                           amount, WithdrawAll, config, r))

nominate_operator(nominator_id, operator_id, amount, set_freeze_ok) ==
    LET r == with_storage_layer(Storage,
                 do_nominate_operator(Storage, operator_id, nominator_id, amount,
                                      set_freeze_ok))
    IN /\ Commit(r.st)
       /\ Record(r, Call("nominate_operator", nominator_id, operator_id, 0, amount,
                           WithdrawAll, NoConfig, r))

switch_operator_domain(operator_owner, operator_id, new_domain_id) ==
    LET r == with_storage_layer(Storage,
                 do_switch_operator_domain(Storage, operator_owner, operator_id,
                                           new_domain_id))
    IN /\ \A d \in DomainIds :
              IsSome(r.st.PendingOperatorSwitches[d])
                  => Len(Unwrap(r.st.PendingOperatorSwitches[d])) <= MaxPending
       /\ Commit(r.st)
       /\ Record(r, Call("switch_operator_domain", operator_owner, operator_id,
                           new_domain_id, 0, WithdrawAll, NoConfig, r))

deregister_operator(operator_owner, operator_id) ==
    LET r == with_storage_layer(Storage,
                 do_deregister_operator(Storage, operator_owner, operator_id))
    IN /\ Commit(r.st)
       /\ Record(r, Call("deregister_operator", operator_owner, operator_id, 0, 0,
                           WithdrawAll, NoConfig, r))

withdraw_stake(nominator_id, operator_id, withdraw) ==
    LET r == with_storage_layer(Storage,
                 do_withdraw_stake(Storage, operator_id, nominator_id, withdraw))
    IN /\ Commit(r.st)
       /\ Record(r, Call("withdraw_stake", nominator_id, operator_id, 0, 0, withdraw,
                           NoConfig, r))

\* ------------------------------------------------ sp-lightclient: lib.rs
\* A header, as far as import_header looks at it: parent hash, number, and
\* what its digest logs hold. The pre-digest gives the slot and the solution,
\* of which the importer uses the validity and the distance of the tag from
\* the target; the seal is the last log.
Header(parent_hash, number, slot, distance, digest_items, global_randomness, solution_range, salt, seal, solution) ==
    [ parent_hash |-> parent_hash, number |-> number, slot |-> slot,
      distance |-> distance, digest_items |-> digest_items,
      global_randomness |-> global_randomness, solution_range |-> solution_range,
      salt |-> salt, seal |-> seal, solution |-> solution ]

\* Header::hash(): a function of the whole content, without collisions.
Hash(header) ==
    header.parent_hash \o
        << header.number, header.slot, header.distance, header.digest_items,
           header.global_randomness, header.solution_range, header.salt,
           header.seal, header.solution >>

\* HeaderExt
HeaderExt(header, global_randomness, solution_range, salt, total_weight) ==
    [ header |-> header,
      derived_global_randomness |-> global_randomness,
      derived_solution_range |-> solution_range,
      derived_salt |-> salt,
      total_weight |-> total_weight ]

\* Storage::header(hash): the stored HeaderExt with this hash, if any.
header_of(st, hash) ==
    IF \E e \in st.headers : Hash(e.header) = hash
    THEN Some(CHOOSE e \in st.headers : Hash(e.header) = hash)
    ELSE None

\* Storage::best_header()
best_header(st) == Unwrap(header_of(st, st.best))

\* Storage::finalized_header()
finalized_header(st) == Unwrap(header_of(st, st.finalized))

\* Storing a header finalizes it as well.
store_header_finalizing(st, header_ext, as_best_header) ==
    [ st EXCEPT !.headers = @ \cup {header_ext},
                !.best = IF as_best_header THEN Hash(header_ext.header) ELSE @,
                !.finalized = Hash(header_ext.header) ]

\* Storage::store_header(header_ext, as_best_header)
store_header(st, header_ext, as_best_header) ==
    [ st EXCEPT !.headers = @ \cup {header_ext},
                !.best = IF as_best_header THEN Hash(header_ext.header) ELSE @ ]

\* What a call returns: the result, what the error carries (a hash for
\* MissingParent), the store after the call and the writing calls made on it.
ImportOk(st, as_best_header) ==
    [ res |-> "Ok", arg |-> <<>>, st |-> st, calls |-> <<"store_header">>,
      as_best_header |-> as_best_header ]
ImportErr(st, e) ==
    [ res |-> e, arg |-> <<>>, st |-> st, calls |-> <<>>, as_best_header |-> FALSE ]
ImportErrWith(st, e, arg) == [ImportErr(st, e) EXCEPT !.arg = arg]

\* MissingParent carries the hash of the parent.
missing_parent_of_parent(header) == header.parent_hash

\* ImportError::MissingParent(header.hash())
missing_parent(header) == Hash(header)

\* The salt is compared first, the global randomness last.
verify_header_digest_with_parent_salt_first(parent_header, header) ==
    IF header.digest_items = "missing" THEN "DigestExtractionError"
    ELSE IF header.salt # parent_header.derived_salt THEN "InvalidDigest(Salt)"
    ELSE IF header.solution_range # parent_header.derived_solution_range
    THEN "InvalidDigest(SolutionRange)"
    ELSE IF header.global_randomness # parent_header.derived_global_randomness
    THEN "InvalidDigest(GlobalRandomness)"
    ELSE "Ok"

\* extract_subspace_digest_items and the comparison with the parent's
\* derived values.
verify_header_digest_with_parent(parent_header, header) ==
    IF header.digest_items = "missing" THEN "DigestExtractionError"
    ELSE IF header.global_randomness # parent_header.derived_global_randomness
    THEN "InvalidDigest(GlobalRandomness)"
    ELSE IF header.solution_range # parent_header.derived_solution_range
    THEN "InvalidDigest(SolutionRange)"
    ELSE IF header.salt # parent_header.derived_salt THEN "InvalidDigest(Salt)"
    ELSE "Ok"

\* A header in the slot of its parent passes.
verify_slot_lenient(parent_header, header) ==
    IF parent_header.digest_items = "missing" THEN "DigestExtractionError"
    ELSE IF header.slot < parent_header.slot THEN "InvalidSlot"
    ELSE "Ok"

\* HeaderImporter::verify_slot
verify_slot(parent_header, header) ==
    IF parent_header.digest_items = "missing" THEN "DigestExtractionError"
    ELSE IF header.slot <= parent_header.slot THEN "InvalidSlot"
    ELSE "Ok"

verify_block_signature(header) ==
    IF header.seal = "missing" THEN "DigestExtractionError"
    ELSE IF header.seal = "not_a_seal" THEN "InvalidDigest(Seal)"
    ELSE IF header.seal = "bad_signature" THEN "InvalidBlockSignature"
    ELSE "Ok"

\* subspace_verification::verify_solution
verify_solution(header) == IF header.solution = "invalid" THEN "InvalidSolution" ELSE "Ok"

\* u64::MAX - bidirectional_distance(&target, &tag)
calculate_block_weight(header) == MaxBlockWeight - header.distance

\* The header imported last is always the best one.
is_best_header_newest(last_best_header, parent_header, number, total_weight) == TRUE

\* A tie on weight and number goes to the new header.
is_best_header_lenient(last_best_header, parent_header, number, total_weight) ==
    IF Hash(last_best_header.header) = Hash(parent_header.header) THEN TRUE
    ELSE IF total_weight > last_best_header.total_weight THEN TRUE
    ELSE IF total_weight = last_best_header.total_weight
    THEN number >= last_best_header.header.number
    ELSE FALSE

\* The fork choice of import_header: is_best_header.
is_best_header(last_best_header, parent_header, number, total_weight) ==
    IF Hash(last_best_header.header) = Hash(parent_header.header) THEN TRUE
    ELSE IF total_weight > last_best_header.total_weight THEN TRUE
    ELSE IF total_weight = last_best_header.total_weight
    THEN number > last_best_header.header.number
    ELSE FALSE

\* The parent is looked up before the header itself.
import_header_parent_first(st, header) ==
    IF ~IsSome(header_of(st, header.parent_hash))
    THEN ImportErrWith(st, "MissingParent", missing_parent(header))
    ELSE IF IsSome(header_of(st, Hash(header))) THEN ImportErr(st, "HeaderAlreadyImported")
    ELSE
    LET parent_header == Unwrap(header_of(st, header.parent_hash))
        digest == verify_header_digest_with_parent(parent_header, header)
        slot == verify_slot(parent_header.header, header)
        signature == verify_block_signature(header)
        solution == verify_solution(header)
    IN IF digest # "Ok" THEN ImportErr(st, digest)
       ELSE IF slot # "Ok" THEN ImportErr(st, slot)
       ELSE IF signature # "Ok" THEN ImportErr(st, signature)
       ELSE IF solution # "Ok" THEN ImportErr(st, solution)
       ELSE
       LET block_weight == calculate_block_weight(header)
           total_weight == parent_header.total_weight + block_weight
           as_best == is_best_header(best_header(st), parent_header, header.number,
                                     total_weight)
           header_ext == HeaderExt(header, header.global_randomness,
                                   header.solution_range, header.salt, total_weight)
       IN ImportOk(store_header(st, header_ext, as_best), as_best)

\* u128::MAX, the greatest BlockWeight: BlockWeight has twice the width of the
\* u64 of which MaxBlockWeight is the greatest.
MaxTotalWeight == (MaxBlockWeight + 1) * (MaxBlockWeight + 1) - 1

\* parent_header.total_weight + block_weight on u128: a sum above u128::MAX
\* panics in a build with overflow checks (None) and wraps in one without.
add_block_weight(total_weight, block_weight, overflow_checks) ==
    IF total_weight + block_weight <= MaxTotalWeight
    THEN Some(total_weight + block_weight)
    ELSE IF overflow_checks THEN None
    ELSE Some((total_weight + block_weight) % (MaxTotalWeight + 1))

\* HeaderImporter::import_header, built with or without overflow checks.
import_header_built(st, header, overflow_checks) ==
    IF IsSome(header_of(st, Hash(header))) THEN ImportErr(st, "HeaderAlreadyImported")
    ELSE IF ~IsSome(header_of(st, header.parent_hash))
    THEN ImportErrWith(st, "MissingParent", missing_parent(header))
    ELSE
    LET parent_header == Unwrap(header_of(st, header.parent_hash))
        digest == verify_header_digest_with_parent(parent_header, header)
        slot == verify_slot(parent_header.header, header)
        signature == verify_block_signature(header)
        solution == verify_solution(header)
    IN IF digest # "Ok" THEN ImportErr(st, digest)
       ELSE IF slot # "Ok" THEN ImportErr(st, slot)
       ELSE IF signature # "Ok" THEN ImportErr(st, signature)
       ELSE IF solution # "Ok" THEN ImportErr(st, solution)
       ELSE
       LET block_weight == calculate_block_weight(header)
           sum == add_block_weight(parent_header.total_weight, block_weight,
                                   overflow_checks)
           total_weight == Unwrap(sum)
           as_best == is_best_header(best_header(st), parent_header, header.number,
                                     total_weight)
           header_ext == HeaderExt(header, header.global_randomness,
                                   header.solution_range, header.salt, total_weight)
       IN IF ~IsSome(sum) THEN ImportErr(st, "panic")
          ELSE ImportOk(store_header(st, header_ext, as_best), as_best)

\* HeaderImporter::import_header while the total weights stay below u128::MAX,
\* where the builds do not differ.
import_header(st, header) == import_header_built(st, header, FALSE)

\* Storage::headers_at_number(number): the stored headers with this number;
\* the trait does not say in which order.
headers_at_number(st, number) == {e \in st.headers : e.header.number = number}

\* The loop of find_ancestor_of_header_at_number: up the parent hashes while
\* the number is above ancestor_number; None when a parent is not stored.
RECURSIVE tree_route(_, _, _)
tree_route(st, header, ancestor_number) ==
    IF header.header.number > ancestor_number
    THEN IF IsSome(header_of(st, header.header.parent_hash))
         THEN tree_route(st, Unwrap(header_of(st, header.header.parent_hash)),
                         ancestor_number)
         ELSE None
    ELSE Some(header)

\* HeaderImporter::find_ancestor_of_header_at_number: what the call can
\* return. The short circuit returns the first of headers_at_number, which
\* is any of them, or None when there is none.
find_ancestor_of_header_at_number(st, header, ancestor_number) ==
    IF ancestor_number >= header.header.number THEN {None}
    ELSE LET headers_at_ancestor_number == headers_at_number(st, ancestor_number)
         IN IF \/ ancestor_number <= finalized_header(st).header.number
               \/ Cardinality(headers_at_ancestor_number) = 1
            THEN IF headers_at_ancestor_number = {} THEN {None}
                 ELSE {Some(e) : e \in headers_at_ancestor_number}
            ELSE {tree_route(st, header, ancestor_number)}

\* The greatest NumberOf<Header>.
MaxNumber == 6

\* Storage::prune_header(hash)
prune_header(st, hash) ==
    [st EXCEPT !.headers = {e \in @ : Hash(e.header) # hash}]

\* The loop of prune_chain_from_header: at each next number the stored
\* headers whose parent is among the hashes pruned last are pruned; calls
\* holds the hashes prune_header has been called with.
RECURSIVE prune_descendants(_, _, _, _)
prune_descendants(st, pruned_parent_hashes, current_number, calls) ==
    IF pruned_parent_hashes = {} THEN [res |-> "Ok", st |-> st, calls |-> calls]
    ELSE IF current_number + 1 > MaxNumber
    THEN [res |-> "ArithmeticError(Overflow)", st |-> st, calls |-> calls]
    ELSE LET descendant_header_hashes ==
                 { Hash(e.header) :
                     e \in { d \in headers_at_number(st, current_number + 1) :
                               d.header.parent_hash \in pruned_parent_hashes } }
             pruned == [st EXCEPT !.headers =
                           {e \in @ : Hash(e.header) \notin descendant_header_hashes}]
         IN prune_descendants(pruned, descendant_header_hashes, current_number + 1,
                              calls \cup descendant_header_hashes)

\* HeaderImporter::prune_chain_from_header
prune_chain_from_header(st, header) ==
    prune_descendants(prune_header(st, Hash(header.header)), {Hash(header.header)},
                      header.header.number, {Hash(header.header)})

\* The genesis header, and the store that holds only it.
GenesisHeader == Header(<<>>, 0, 0, 0, "ok", 0, 0, 0, "valid", "valid")
GenesisStore ==
    [ headers |-> {HeaderExt(GenesisHeader, 0, 0, 0, 0)},
      best |-> Hash(GenesisHeader),
      finalized |-> Hash(GenesisHeader) ]
NoImport ==
    [ header |-> GenesisHeader, as_best_header |-> TRUE, calls |-> <<>>,
      last_best |-> Hash(GenesisHeader) ]

\* ------------------------------------- subspace-farmer: the piece cache
\* The capacities a cache is opened with.
Capacities == 1..MaxCapacity
\* PieceCacheOffset: those below the capacity and the next ones.
Offsets == 0..MaxCapacity

\* A byte has ByteValues values; a piece index is PieceIndexBytes bytes and a
\* piece PieceBytes bytes long.
ByteValues == 2
PieceIndexBytes == 2
PieceBytes == 1
Bytes == 0..(ByteValues - 1)
PieceIndexes == 0..(ByteValues ^ PieceIndexBytes - 1)
Pieces == [1..PieceBytes -> Bytes]

\* The piece index whose bytes are all ones: it denotes an empty slot.
EmptySlot == ByteValues ^ PieceIndexBytes - 1

\* The little-endian bytes of a piece index, and the piece index of bytes.
to_le_bytes(piece_index) ==
    [k \in 1..PieceIndexBytes |-> (piece_index \div (ByteValues ^ (k - 1))) % ByteValues]
RECURSIVE from_bytes(_, _)
from_bytes(bytes, k) ==
    IF k > Len(bytes) THEN 0 ELSE bytes[k] * ByteValues ^ (k - 1) + from_bytes(bytes, k + 1)
from_le_bytes(bytes) == from_bytes(bytes, 1)

\* A record of the file: the piece index, then the piece.
Record_of(piece_index, piece) == [piece_index |-> to_le_bytes(piece_index), piece |-> piece]
\* Piece::default()
DefaultPiece == [k \in 1..PieceBytes |-> 0]
EmptyRecord == Record_of(EmptySlot, DefaultPiece)

\* What a call returns: the result, what OffsetOutsideOfRange carries, and
\* the file after the call.
CacheOk(f) == [res |-> "Ok", provided |-> 0, max |-> 0, file |-> f]
CacheErr(f, e) == [res |-> e, provided |-> 0, max |-> 0, file |-> f]

\* open creates the file anew whatever it holds.
open_fresh(f, capacity) ==
    CacheOk(Some([o \in 1..capacity |-> EmptyRecord]))

\* PieceCache::open(path, capacity): creates the file with capacity empty
\* records when there is none (or a wiped one), and refuses a file of
\* another length as corrupt.
open(f, capacity) ==
    IF f = None \/ f = Some(<<>>)
    THEN CacheOk(Some([o \in 1..capacity |-> EmptyRecord]))
    ELSE IF Len(Unwrap(f)) # capacity THEN CacheErr(f, "Corrupt")
    ELSE CacheOk(f)

\* PieceCacheError::OffsetOutsideOfRange { provided, max }
OffsetOutsideOfRange(f, provided, max) ==
    [res |-> "OffsetOutsideOfRange", provided |-> provided, max |-> max, file |-> f]

\* The offset that is the capacity passes the check.
write_piece_inclusive(f, capacity, offset, piece_index, piece, io_ok) ==
    IF offset > capacity THEN OffsetOutsideOfRange(f, offset, capacity)
    ELSE IF ~io_ok \/ offset = capacity THEN CacheErr(f, "Io")
    ELSE CacheOk(Some([Unwrap(f) EXCEPT ![offset + 1] = Record_of(piece_index, piece)]))

\* A write to an occupied slot replaces the piece and keeps the index.
write_piece_keep_index(f, capacity, offset, piece_index, piece, io_ok) ==
    IF offset >= capacity THEN OffsetOutsideOfRange(f, offset, capacity)
    ELSE IF ~io_ok THEN CacheErr(f, "Io")
    ELSE IF from_le_bytes(Unwrap(f)[offset + 1].piece_index) # EmptySlot
    THEN CacheOk(Some([Unwrap(f) EXCEPT ![offset + 1].piece = piece]))
    ELSE CacheOk(Some([Unwrap(f) EXCEPT ![offset + 1] = Record_of(piece_index, piece)]))

\* PieceCache::write_piece(offset, piece_index, piece): the record of the
\* slot is written whole, or not at all when the write fails.
write_piece(f, capacity, offset, piece_index, piece, io_ok) ==
    IF offset >= capacity THEN OffsetOutsideOfRange(f, offset, capacity)
    ELSE IF ~io_ok THEN CacheErr(f, "Io")
    ELSE CacheOk(Some([Unwrap(f) EXCEPT ![offset + 1] = Record_of(piece_index, piece)]))

\* PieceCache::read_piece_index(offset)
read_piece_index(f, capacity, offset) ==
    IF offset >= capacity THEN None
    ELSE IF from_le_bytes(Unwrap(f)[offset + 1].piece_index) = EmptySlot THEN None
    ELSE Some(from_le_bytes(Unwrap(f)[offset + 1].piece_index))

\* PieceCache::read_piece(offset)
read_piece(f, capacity, offset) ==
    IF offset >= capacity THEN None
    ELSE IF from_le_bytes(Unwrap(f)[offset + 1].piece_index) = EmptySlot THEN None
    ELSE Some(Unwrap(f)[offset + 1].piece)

\* PieceCache::contents(): (offset, maybe_piece_index), by increasing offset.
contents(f, capacity) ==
    [o \in 1..capacity |-> <<o - 1, read_piece_index(f, capacity, o - 1)>>]

\* wipe leaves the file as it is.
wipe_nothing(f, truncate) == f

\* PieceCache::wipe(path): truncates or unlinks the file.
wipe(f, truncate) == IF f # None /\ truncate THEN Some(<<>>) ELSE None

\* No offset has been written.
NeverWritten == [o \in Offsets |-> None]

\* The threads that read the cache while it is written.
Readers == {"reader1", "reader2"}

\* A read takes the index of the slot first and its piece afterwards.
read_slot_in_two(first, now) == [piece_index |-> first.piece_index, piece |-> now.piece]

\* What a read of a slot observes: the record the slot holds at one instant,
\* whatever it held when the read began.
read_slot(first, now) == now

\* A reader that has not read yet.
NotReading ==
    [state |-> "idle", offset |-> 0, first |-> EmptyRecord, seen |-> {}, slot |-> EmptyRecord]

\* ------------------------------------------------------------ the ledger
EmptySummary ==
    [current_epoch_index |-> 0, current_total_stake |-> 0,
     current_operators |-> <<>>, next_operators |-> <<>>]

\* The ledger before any operator is registered: domain 0 is initialized,
\* domain 1 is not yet.
EmptyLedger ==
    [ NextOperatorId |-> 0,
      OperatorIdOwner |-> [o \in OperatorIds |-> None],
      OperatorPools |-> [o \in OperatorIds |-> None],
      Nominators |-> [k \in OperatorIds \X Accounts |-> None],
      PendingDeposits |-> [k \in OperatorIds \X Accounts |-> None],
      PendingWithdrawals |-> [k \in OperatorIds \X Accounts |-> None],
      DomainStakingSummary |-> [d \in DomainIds |-> IF d = 0 THEN Some(EmptySummary) ELSE None],
      PendingOperatorSwitches |-> [d \in DomainIds |-> None],
      PendingOperatorDeregistrations |-> None,
      FreeBalance |-> [a \in Accounts |-> IF a = 0 THEN 3 ELSE 2],
      Freezes |-> [k \in OperatorIds \X Accounts |-> 0] ]

\* The empty ledger with both domains initialized, each account holding what
\* registers one operator.
TwoDomainLedger ==
    [ EmptyLedger EXCEPT
        !.DomainStakingSummary[1] = Some(EmptySummary),
        !.FreeBalance = [a \in Accounts |-> MinOperatorStake] ]

\* The ledger an epoch later: account 0 has registered operator 0 on domain 0
\* and account 1 has nominated it, the deposits are converted (3 and 2 shares
\* of a stake of 5) and still frozen, the pool has earned a reward of 1,
\* domain 1 is initialized and account 1 has received 1 more.
StakedLedger ==
    [ EmptyLedger EXCEPT
        !.NextOperatorId = 1,
        !.OperatorIdOwner[0] = Some(0),
        !.OperatorPools[0] =
            Some([ signing_key |-> "key0",
                   current_domain_id |-> 0,
                   next_domain_id |-> 0,
                   minimum_nominator_stake |-> 1,
                   nomination_tax |-> 0,
                   current_total_stake |-> 5,
                   current_epoch_rewards |-> 1,
                   total_shares |-> 5,
                   is_frozen |-> FALSE ]),
        !.Nominators[<<0, 0>>] = Some([shares |-> 3]),
        !.Nominators[<<0, 1>>] = Some([shares |-> 2]),
        !.DomainStakingSummary[0] =
            Some([current_epoch_index |-> 1, current_total_stake |-> 5,
                  current_operators |-> <<0>>, next_operators |-> <<0>>]),
        !.DomainStakingSummary[1] = Some(EmptySummary),
        !.FreeBalance = [a \in Accounts |-> 3],
        !.Freezes[<<0, 0>>] = 3,
        !.Freezes[<<0, 1>>] = 2 ]

Init ==
    /\ \E s \in {EmptyLedger, TwoDomainLedger, StakedLedger} :
          /\ NextOperatorId = s.NextOperatorId
          /\ OperatorIdOwner = s.OperatorIdOwner
          /\ OperatorPools = s.OperatorPools
          /\ Nominators = s.Nominators
          /\ PendingDeposits = s.PendingDeposits
          /\ PendingWithdrawals = s.PendingWithdrawals
          /\ DomainStakingSummary = s.DomainStakingSummary
          /\ PendingOperatorSwitches = s.PendingOperatorSwitches
          /\ PendingOperatorDeregistrations = s.PendingOperatorDeregistrations
          /\ FreeBalance = s.FreeBalance
          /\ Freezes = s.Freezes
    /\ lastOk = [ op |-> "none", who |-> 0, operator_id |-> 0, domain_id |-> 0,
                  amount |-> 0, withdraw |-> WithdrawAll, config |-> NoConfig,
                  ret |-> None ]
    /\ store = GenesisStore
    /\ lastImport = NoImport
    /\ file = None
    /\ cache = None
    /\ written = NeverWritten
    /\ lastCache = [op |-> "none", wiped |-> FALSE]
    /\ writers = [o \in Offsets |-> None]
    /\ readers = [r \in Readers |-> NotReading]

Next ==
    \/ \E a \in Accounts, d \in DomainIds, b \in StakeAmounts, c \in OperatorConfigs,
          ok \in BOOLEAN : register_operator(a, d, b, c, ok)
    \/ \E a \in Accounts, o \in OperatorIds, b \in StakeAmounts, ok \in BOOLEAN :
          nominate_operator(a, o, b, ok)
    \/ \E a \in Accounts, o \in OperatorIds, d \in DomainIds :
          switch_operator_domain(a, o, d)
    \/ \E a \in Accounts, o \in OperatorIds : deregister_operator(a, o)
    \/ \E a \in Accounts, o \in OperatorIds, w \in WithdrawIntents :
          withdraw_stake(a, o, w)

Spec == Init /\ [][Next]_vars

\* ------------------------------------------------------ the header store
stakingVars == << NextOperatorId, OperatorIdOwner, OperatorPools, Nominators,
                  PendingDeposits, PendingWithdrawals, DomainStakingSummary,
                  PendingOperatorSwitches, PendingOperatorDeregistrations, FreeBalance,
                  Freezes, lastOk >>

StoredHashes(st) == {Hash(e.header) : e \in st.headers}

\* The hash of a header that is in no store: its slot is not above the slot
\* of its parent.
UnknownHash == Hash(Header(Hash(GenesisHeader), 1, 0, 0, "ok", 0, 0, 0, "valid", "valid"))

\* The header with this hash, the genesis header when it is unknown.
HeaderAt(st, hash) ==
    IF IsSome(header_of(st, hash)) THEN Unwrap(header_of(st, hash)).header ELSE GenesisHeader
SlotOf(st, hash) == HeaderAt(st, hash).slot
NumberOf(st, hash) == HeaderAt(st, hash).number

\* Headers that pass every check but, for UnknownHash, the parent lookup:
\* the number one or two above the parent's (import_header does not compare
\* them), one of the next two slots, any distance of the tag.
SoundHeaders(st) ==
    { h \in { Header(p, NumberOf(st, p) + dn, SlotOf(st, p) + ds, d, "ok", 0, 0, 0,
                     "valid", "valid") :
                p \in StoredHashes(st) \cup {UnknownHash}, dn \in {1, 2},
                ds \in {1, 2}, d \in 0..(MaxBlockWeight \div 2) } :
        h.number <= MaxNumber }

\* A child of a stored header with one thing wrong.
Faults ==
    { "digest_items", "global_randomness", "solution_range", "salt", "slot",
      "seal_missing", "not_a_seal", "bad_signature", "solution" }
Spoilt(h, fault) ==
    CASE fault = "digest_items"      -> [h EXCEPT !.digest_items = "missing"]
      [] fault = "global_randomness" -> [h EXCEPT !.global_randomness = 1]
      [] fault = "solution_range"    -> [h EXCEPT !.solution_range = 1]
      [] fault = "salt"              -> [h EXCEPT !.salt = 1]
      [] fault = "slot"              -> [h EXCEPT !.slot = @ - 1]
      [] fault = "seal_missing"      -> [h EXCEPT !.seal = "missing"]
      [] fault = "not_a_seal"        -> [h EXCEPT !.seal = "not_a_seal"]
      [] fault = "bad_signature"     -> [h EXCEPT !.seal = "bad_signature"]
      [] fault = "solution"          -> [h EXCEPT !.solution = "invalid"]
\* ... and with the slot or a digest value wrong and one thing more (the
\* slot twice: a slot below the parent's).
UnsoundHeaders(st) ==
    LET child(p) == Header(p, 1, SlotOf(st, p) + 1, 0, "ok", 0, 0, 0, "valid", "valid")
    IN { Spoilt(child(p), f) : p \in StoredHashes(st), f \in Faults }
         \cup { Spoilt(Spoilt(child(p), g), f) :
                  p \in StoredHashes(st), f \in Faults,
                  g \in {"slot", "global_randomness", "solution_range"} }

\* Every header a caller passes: sound and unsound ones, and the stored ones
\* again.
Candidates(st) ==
    SoundHeaders(st) \cup UnsoundHeaders(st) \cup {e.header : e \in st.headers}

\* One serialized import_header call on the store.
import(header) ==
    LET r == import_header(store, header)
    IN /\ Cardinality(store.headers) <= MaxHeaders
       /\ store' = r.st
       /\ lastImport' = IF r.res = "Ok"
                        THEN [header |-> header, as_best_header |-> r.as_best_header,
                              calls |-> r.calls, last_best |-> store.best]
                        ELSE lastImport
       /\ UNCHANGED <<stakingVars, file, cache, written, lastCache, writers, readers>>

InitImport == Init /\ NextOperatorId = 0

NextImport == \E header \in Candidates(store) : import(header)

SpecImport == InitImport /\ [][NextImport]_vars

\* -------------------------------------------------- a long chain of headers
\* The children of the best header in the next two slots, with any distance
\* of the tag.
Extensions(st) ==
    { Header(st.best, NumberOf(st, st.best) + 1, SlotOf(st, st.best) + ds, d, "ok", 0, 0, 0,
             "valid", "valid") : ds \in {1, 2}, d \in 0..(MaxBlockWeight \div 2) }

\* One import_header call that extends the best chain, in either build; a
\* call that panics leaves the store as it was.
extend(header, overflow_checks) ==
    LET r == import_header_built(store, header, overflow_checks)
    IN /\ Cardinality(store.headers) <= MaxHeaders + 2
       /\ store' = r.st
       /\ lastImport' = IF r.res = "Ok"
                        THEN [header |-> header, as_best_header |-> r.as_best_header,
                              calls |-> r.calls, last_best |-> store.best]
                        ELSE lastImport
       /\ UNCHANGED <<stakingVars, file, cache, written, lastCache, writers, readers>>

NextChain ==
    \E header \in Extensions(store) : \E overflow_checks \in BOOLEAN :
        extend(header, overflow_checks)

SpecChain == InitImport /\ [][NextChain]_vars

\* ------------------------------------------------------ the piece cache
\* PieceCache::open on the path, while no handle is open: the file is created
\* (after a wipe of stored pieces or not) or opened again.
Open(capacity) ==
    LET r == open(file, capacity)
    IN /\ cache = None
       /\ r.res = "Ok"
       /\ file' = r.file
       /\ cache' = Some(capacity)
       /\ written' = IF file \in {None, Some(<<>>)} THEN NeverWritten ELSE written
       /\ lastCache' = IF file \in {None, Some(<<>>)}
                       THEN [op |-> "create", wiped |-> lastCache.wiped]
                       ELSE [op |-> "reopen", wiped |-> FALSE]
       /\ UNCHANGED <<stakingVars, store, lastImport, writers, readers>>

\* write_piece on the open handle; a failed write changes nothing.
WritePiece(offset, piece_index, piece, io_ok) ==
    LET r == write_piece(file, Unwrap(cache), offset, piece_index, piece, io_ok)
    IN /\ cache # None
       /\ file' = r.file
       /\ written' = IF r.res = "Ok"
                     THEN [written EXCEPT ![offset] =
                              Some([ piece_index |-> piece_index, piece |-> piece,
                                     replaced |->
                                         IsSome(read_piece_index(file, Unwrap(cache),
                                                                 offset)) ])]
                     ELSE written
       /\ lastCache' = IF r.res = "Ok" THEN [op |-> "write_piece", wiped |-> FALSE]
                       ELSE lastCache
       /\ UNCHANGED <<stakingVars, store, lastImport, cache, writers, readers>>

\* The handle is dropped.
Drop ==
    /\ cache # None
    /\ cache' = None
    /\ lastCache' = [op |-> "drop", wiped |-> FALSE]
    /\ UNCHANGED <<stakingVars, store, lastImport, file, written, writers, readers>>

\* PieceCache::wipe on the path, while no handle is open.
Wipe(truncate) ==
    /\ cache = None
    /\ file' = wipe(file, truncate)
    /\ written' = NeverWritten
    /\ lastCache' = [op |-> "wipe", wiped |-> \E o \in Offsets : IsSome(written[o])]
    /\ UNCHANGED <<stakingVars, store, lastImport, cache, writers, readers>>

NextCache ==
    \/ \E capacity \in Capacities : Open(capacity)
    \/ \E offset \in Offsets, piece_index \in PieceIndexes, piece \in Pieces,
          io_ok \in BOOLEAN : WritePiece(offset, piece_index, piece, io_ok)
    \/ Drop
    \/ \E truncate \in BOOLEAN : Wipe(truncate)

SpecCache == InitImport /\ [][NextCache]_vars

\* ------------------------------------- the piece cache, shared by threads
\* A thread calls write_piece on a slot no other thread is writing.
BeginWrite(offset, piece_index, piece) ==
    /\ cache # None /\ offset < Unwrap(cache)
    /\ writers[offset] = None
    /\ writers' = [writers EXCEPT ![offset] =
                       Some([piece_index |-> piece_index, piece |-> piece])]
    /\ UNCHANGED <<stakingVars, store, lastImport, file, cache, written, lastCache, readers>>

\* The write takes effect, as one record, and write_piece returns; the reads
\* of the slot in progress have overlapped it.
EndWrite(offset) ==
    /\ writers[offset] # None
    /\ LET w == Unwrap(writers[offset])
           r == write_piece(file, Unwrap(cache), offset, w.piece_index, w.piece, TRUE)
       IN /\ file' = r.file
          /\ readers' = [t \in Readers |->
                            IF readers[t].state = "reading" /\ readers[t].offset = offset
                            THEN [readers[t] EXCEPT
                                     !.seen = @ \cup {Unwrap(r.file)[offset + 1]}]
                            ELSE readers[t]]
    /\ writers' = [writers EXCEPT ![offset] = None]
    /\ UNCHANGED <<stakingVars, store, lastImport, cache, written, lastCache>>

\* A thread calls read_piece or read_piece_index on a slot.
BeginRead(reader, offset) ==
    /\ cache # None /\ offset < Unwrap(cache)
    /\ readers[reader].state # "reading"
    /\ readers' = [readers EXCEPT ![reader] =
                       [state |-> "reading", offset |-> offset,
                        first |-> Unwrap(file)[offset + 1],
                        seen |-> {Unwrap(file)[offset + 1]},
                        slot |-> EmptyRecord]]
    /\ UNCHANGED <<stakingVars, store, lastImport, file, cache, written, lastCache, writers>>

\* The read observes the slot and returns.
EndRead(reader) ==
    /\ readers[reader].state = "reading"
    /\ readers' = [readers EXCEPT ![reader] =
                       [@ EXCEPT !.state = "done",
                                 !.slot = read_slot(readers[reader].first,
                                                    Unwrap(file)[readers[reader].offset + 1])]]
    /\ UNCHANGED <<stakingVars, store, lastImport, file, cache, written, lastCache, writers>>

\* The capacity the shared cache is opened with.
SharedCapacity == 2

\* What the threads write: under each byte as piece index, the piece filled
\* with that byte.
SharedWrites == {<<i, [k \in 1..PieceBytes |-> i]>> : i \in Bytes}

NextShared ==
    \/ Open(SharedCapacity)
    \/ \E offset \in Offsets, w \in SharedWrites : BeginWrite(offset, w[1], w[2])
    \/ \E offset \in Offsets : EndWrite(offset)
    \/ \E reader \in Readers, offset \in Offsets : BeginRead(reader, offset)
    \/ \E reader \in Readers : EndRead(reader)

SpecShared == InitImport /\ [][NextShared]_vars


\* ---------------------------------------------------------------- claims
HasPool(o) == IsSome(OperatorPools[o])
PoolOf(o) == Unwrap(OperatorPools[o])
Frozen(o) == HasPool(o) /\ PoolOf(o).is_frozen
IsOwner(a, o) == OperatorIdOwner[o] = Some(a)

\* Every intent a caller can pass, over the whole range of Balance.
AllIntents == {WithdrawAll} \cup {WithdrawSome(b) : b \in Balances}

\* C1: on a frozen pool no nominate_operator, switch_operator_domain or
\* withdraw_stake returns Ok, whoever calls and whatever the arguments; the
\* error is OperatorPoolFrozen once the checks that precede the frozen check
\* (ownership, target domain initialized) pass, and the call leaves the
\* storage as it found it.
TheoremC1 ==
    \A o \in OperatorIds : Frozen(o) =>
        \A a \in Accounts :
            /\ \A b \in Balances, ok \in BOOLEAN :
                  LET r == do_nominate_operator(Storage, o, a, b, ok)
                  IN r.res = "OperatorPoolFrozen" /\ r.st = Storage
            /\ \A w \in AllIntents :
                  LET r == do_withdraw_stake(Storage, o, a, w)
                  IN r.res = "OperatorPoolFrozen" /\ r.st = Storage
            /\ \A d \in DomainIds :
                  LET r == do_switch_operator_domain(Storage, a, o, d)
                  IN /\ r.res # "Ok"
                     /\ r.st = Storage
                     /\ (IsOwner(a, o) /\ IsSome(DomainStakingSummary[d]))
                            => r.res = "OperatorPoolFrozen"

\* A pool that was just deregistered, with a withdrawal pending and funds its
\* nominator could still stake: nominate_operator on it is refused as frozen.
WitnessC1 ==
    \E o \in OperatorIds :
        /\ Frozen(o)
        /\ lastOk.op = "deregister_operator" /\ lastOk.operator_id = o
        /\ IsSome(PendingWithdrawals[<<o, 1>>])
        /\ reducible_balance(Storage, 1) >= 1
        /\ PoolOf(o).minimum_nominator_stake <= 1
        /\ do_nominate_operator(Storage, o, 1, 1, TRUE).res = "OperatorPoolFrozen"

\* C2 as stated: deregister_operator on a frozen pool fails with
\* OperatorPoolFrozen, whoever calls it.
OriginalC2 ==
    \A o \in OperatorIds : Frozen(o) =>
        \A a \in Accounts :
            do_deregister_operator(Storage, a, o).res = "OperatorPoolFrozen"

FrozenRejectsOwner ==
    \A o \in OperatorIds : Frozen(o) =>
        \A a \in Accounts :
            LET r == do_deregister_operator(Storage, a, o)
            IN /\ r.res = IF IsOwner(a, o) THEN "OperatorPoolFrozen" ELSE "NotOperatorOwner"
               /\ r.st = Storage

PoolLifecycle ==
    \A o \in OperatorIds :
        /\ HasPool(o) => HasPool(o)'
        /\ Frozen(o) => Frozen(o)'
        /\ (~HasPool(o) /\ HasPool(o)') => ~Frozen(o)'
        /\ (~Frozen(o) /\ Frozen(o)')
               => (lastOk'.op = "deregister_operator" /\ lastOk'.operator_id = o)
        /\ (lastOk'.op = "deregister_operator" /\ lastOk'.operator_id = o) => Frozen(o)'

\* C2 (amended): a pool is created not frozen; only a successful
\* deregister_operator freezes it, and every successful one does; a pool never
\* disappears and a frozen pool stays frozen; deregister_operator by the owner
\* of a frozen pool fails with OperatorPoolFrozen (by anyone else with
\* NotOperatorOwner).
TheoremC2 == []FrozenRejectsOwner /\ [][PoolLifecycle]_vars

\* A frozen pool after a later successful call on the ledger.
WitnessC2 ==
    \E o \in OperatorIds :
        /\ Frozen(o)
        /\ lastOk.op \in {"register_operator", "nominate_operator", "withdraw_stake",
                          "switch_operator_domain"}
        /\ do_deregister_operator(Storage, Unwrap(OperatorIdOwner[o]), o).res
               = "OperatorPoolFrozen"

RegisterErrors ==
    {"MaximumOperatorId", "MinimumOperatorStake", "InsufficientBalance", "BalanceOverflow",
     "BalanceFreeze", "DomainNotInitialized"}

NextOperators(summaries, d) ==
    IF IsSome(summaries[d]) THEN Unwrap(summaries[d]).next_operators ELSE <<>>

\* Every register_operator call that returns an error returns one of the
\* errors of the claim and leaves the storage, the freezes included, as it was.
RegisterErrorsRollBack ==
    \A a \in Accounts, d \in DomainIds, b \in Balances, c \in OperatorConfigs, ok \in BOOLEAN :
        LET r == with_storage_layer(Storage,
                     do_register_operator(Storage, a, d, b, c, ok))
        IN r.res # "Ok" => (r.res \in RegisterErrors /\ r.st = Storage)

\* The step is one whole registration: the id is returned, the counter is
\* raised, the owner, the pool and the deposit are written, the id is pushed
\* onto next_operators and the amount is frozen.
WholeRegistration ==
    LET id == NextOperatorId
        who == lastOk'.who
    IN /\ lastOk'.op = "register_operator"
       /\ lastOk'.ret = Some(id)
       /\ NextOperatorId' = id + 1
       /\ OperatorIdOwner' = [OperatorIdOwner EXCEPT ![id] = Some(who)]
       /\ ~IsSome(OperatorPools[id]) /\ IsSome(OperatorPools'[id])
       /\ PendingDeposits' = [PendingDeposits EXCEPT ![<<id, who>>] = Some(lastOk'.amount)]
       /\ Freezes' = [Freezes EXCEPT ![<<id, who>>] = @ + lastOk'.amount]
       /\ NextOperators(DomainStakingSummary', lastOk'.domain_id)
              = Append(NextOperators(DomainStakingSummary, lastOk'.domain_id), id)

\* No step leaves a part of a registration behind.
NoPartialRegistration ==
    ( \/ NextOperatorId' # NextOperatorId
      \/ OperatorIdOwner' # OperatorIdOwner
      \/ \E o \in OperatorIds : ~HasPool(o) /\ HasPool(o)'
      \/ (Freezes' # Freezes /\ lastOk'.op # "nominate_operator") )
        => WholeRegistration

\* C3: a register_operator that returns an error (MaximumOperatorId,
\* MinimumOperatorStake, InsufficientBalance, BalanceOverflow, BalanceFreeze or
\* DomainNotInitialized) leaves the ledger and the host freezes as before the
\* call: NextOperatorId, OperatorIdOwner, OperatorPools, PendingDeposits,
\* next_operators and the freezes change only in a whole, successful
\* registration.
TheoremC3 == []RegisterErrorsRollBack /\ [][NoPartialRegistration]_vars

\* After a first registration, a register_operator on the uninitialized
\* domain has advanced the counter, written the owner and frozen the amount
\* when it fails, and none of it is left.
WitnessC3 ==
    /\ NextOperatorId = 1
    /\ lastOk.op = "register_operator"
    /\ \E a \in Accounts, c \in OperatorConfigs :
          LET raw == do_register_operator(Storage, a, 1, 2, c, TRUE)
          IN /\ raw.res = "DomainNotInitialized"
             /\ raw.st.NextOperatorId = 2
             /\ raw.st.Freezes[<<1, a>>] = 2
             /\ with_storage_layer(Storage, raw).st = Storage

\* The storage with the staking summary of domain d removed.
without_summary(s, d) == [s EXCEPT !.DomainStakingSummary[d] = None]

\* C4: a nominate_operator, switch_operator_domain, deregister_operator or
\* withdraw_stake that returns an error has written nothing: every ledger map
\* and every freeze is as before the call. In particular a switch or
\* deregister of a live pool whose current domain has no staking summary
\* fails and leaves next_domain_id and is_frozen as they were.
TheoremC4 ==
    \A a \in Accounts, o \in OperatorIds :
        /\ \A b \in Balances, ok \in BOOLEAN :
              LET r == do_nominate_operator(Storage, o, a, b, ok)
              IN r.res # "Ok" => r.st = Storage
        /\ \A d \in DomainIds :
              LET r == do_switch_operator_domain(Storage, a, o, d)
              IN r.res # "Ok" => r.st = Storage
        /\ LET r == do_deregister_operator(Storage, a, o)
           IN r.res # "Ok" => r.st = Storage
        /\ \A w \in AllIntents :
              LET r == do_withdraw_stake(Storage, o, a, w)
              IN r.res # "Ok" => r.st = Storage
        /\ (HasPool(o) /\ ~Frozen(o) /\ IsOwner(a, o)) =>
              LET s0 == without_summary(Storage, PoolOf(o).current_domain_id)
              IN /\ \A d \in DomainIds :
                       LET r == do_switch_operator_domain(s0, a, o, d)
                       IN r.res = "DomainNotInitialized" /\ r.st = s0
                 /\ LET r == do_deregister_operator(s0, a, o)
                    IN r.res = "DomainNotInitialized" /\ r.st = s0

\* A nominator who has just staked and cannot fund a second deposit, on a
\* live pool that could switch to another initialized domain.
WitnessC4 ==
    \E o \in OperatorIds :
        /\ HasPool(o) /\ ~Frozen(o)
        /\ lastOk.op = "nominate_operator" /\ lastOk.operator_id = o
        /\ do_nominate_operator(Storage, o, lastOk.who, 2, TRUE).res = "InsufficientBalance"
        /\ \E d \in DomainIds :
              /\ d # PoolOf(o).current_domain_id
              /\ IsSome(DomainStakingSummary[d])
              /\ do_switch_operator_domain(
                     without_summary(Storage, PoolOf(o).current_domain_id),
                     Unwrap(OperatorIdOwner[o]), o, d).res = "DomainNotInitialized"

IdsInv ==
    \A o \in OperatorIds :
        /\ o < NextOperatorId => IsSome(OperatorIdOwner[o])
        /\ HasPool(o) => IsSome(OperatorIdOwner[o])
        /\ o >= NextOperatorId => (~IsSome(OperatorIdOwner[o]) /\ ~HasPool(o))

IdsStep ==
    /\ NextOperatorId' >= NextOperatorId
    /\ IF lastOk'.op = "register_operator"
       THEN lastOk'.ret = Some(NextOperatorId) /\ NextOperatorId' = NextOperatorId + 1
       ELSE NextOperatorId' = NextOperatorId
    /\ \A o \in OperatorIds :
          IsSome(OperatorIdOwner[o]) => OperatorIdOwner'[o] = OperatorIdOwner[o]

\* C5: NextOperatorId never decreases; a successful register_operator returns
\* the value the counter had and raises it by one, and nothing else moves it;
\* every id below the counter has an owner entry and no id at or above it has
\* an owner or a pool (so an id is issued once); every pool has an owner
\* entry; an owner entry never changes once written.
TheoremC5 == []IdsInv /\ [][IdsStep]_vars

\* The second registration: it returned id 1 and the counter stands at 2.
WitnessC5 ==
    /\ lastOk.op = "register_operator"
    /\ lastOk.ret = Some(1)
    /\ NextOperatorId = 2
    /\ IsSome(OperatorIdOwner[0]) /\ IsSome(OperatorIdOwner[1])

\* ------------------------------------------------- withdrawals of the owner
HasNominator(o, a) == IsSome(Nominators[<<o, a>>])
Pending(o, a) == PendingWithdrawals[<<o, a>>]
PendingSome(o, a) == IsSome(Pending(o, a)) /\ Unwrap(Pending(o, a)).kind = "Some"
PendingAll(o, a) == Pending(o, a) = Some(WithdrawAll)

\* The amount a nominator has at stake in a pool.
StakeOf(o, a) == nominator_staked_amount(PoolOf(o), Unwrap(Nominators[<<o, a>>]))

\* A stored partial withdrawal of the owner leaves at least MinOperatorStake.
OwnerKeepsMinimum ==
    \A o \in OperatorIds : \A a \in Accounts :
        (HasPool(o) /\ IsOwner(a, o) /\ HasNominator(o, a) /\ PendingSome(o, a))
            => StakeOf(o, a) - Unwrap(Pending(o, a)).amount >= MinOperatorStake

\* The owner's partial withdrawals that would take the combined amount past
\* the bound, on top of a stored Some(a).
Breaking(o, a) ==
    {b \in Balances :
        StakeOf(o, a) - (Unwrap(Pending(o, a)).amount + b) < MinOperatorStake}

\* C6 as stated: every such withdrawal fails with MinimumOperatorStake.
OriginalC6 ==
    /\ OwnerKeepsMinimum
    /\ \A o \in OperatorIds : \A a \in Accounts :
        (HasPool(o) /\ IsOwner(a, o) /\ HasNominator(o, a) /\ PendingSome(o, a))
            => \A b \in Breaking(o, a) :
                  LET r == do_withdraw_stake(Storage, o, a, WithdrawSome(b))
                  IN r.res = "MinimumOperatorStake" /\ r.st = Storage

\* C6: a stored partial withdrawal Some(w) of the pool owner satisfies
\* nominator_stake - w >= MinOperatorStake; a partial withdrawal Some(b) that
\* would take the combined amount a + b past this bound fails and leaves the
\* stored Some(a) and everything else unchanged. On a pool that is not frozen
\* the error is MinimumOperatorStake when a + b is at most the owner's stake,
\* BalanceUnderflow when a + b exceeds the stake and BalanceOverflow when
\* a + b overflows the balance type; on a frozen pool it is
\* OperatorPoolFrozen.
TheoremC6 ==
    /\ OwnerKeepsMinimum
    /\ \A o \in OperatorIds : \A a \in Accounts :
        (HasPool(o) /\ IsOwner(a, o) /\ HasNominator(o, a) /\ PendingSome(o, a))
            => \A b \in Breaking(o, a) :
                  LET r == do_withdraw_stake(Storage, o, a, WithdrawSome(b))
                      sum == Unwrap(Pending(o, a)).amount + b
                  IN /\ r.res # "Ok"
                     /\ r.st = Storage
                     /\ r.res = IF Frozen(o) THEN "OperatorPoolFrozen"
                                ELSE IF sum > MaxBalance THEN "BalanceOverflow"
                                ELSE IF sum > StakeOf(o, a) THEN "BalanceUnderflow"
                                ELSE "MinimumOperatorStake"

\* The owner's two accepted withdrawals of 1 are stored as Some(2), which
\* leaves exactly MinOperatorStake; one more unit is refused with
\* MinimumOperatorStake.
WitnessC6 ==
    /\ lastOk.op = "withdraw_stake" /\ lastOk.who = 0
    /\ lastOk.withdraw = WithdrawSome(1)
    /\ Pending(0, 0) = Some(WithdrawSome(2))
    /\ StakeOf(0, 0) - 2 = MinOperatorStake
    /\ do_withdraw_stake(Storage, 0, 0, WithdrawSome(1)).res = "MinimumOperatorStake"

\* C7 as stated: the owner's Withdraw::All always fails with
\* MinimumOperatorStake.
OriginalC7 ==
    \A o \in OperatorIds : \A a \in Accounts :
        (HasPool(o) /\ IsOwner(a, o))
            => LET r == do_withdraw_stake(Storage, o, a, WithdrawAll)
               IN r.res = "MinimumOperatorStake" /\ r.st = Storage

\* C7: withdraw_stake with Withdraw::All by the pool owner never returns Ok
\* and leaves the owner's PendingWithdrawals entry, and everything else, as
\* it was (absent stays absent, Some(a) stays Some(a)), whatever the owner's
\* stake. The error is MinimumOperatorStake when the pool is not frozen and
\* the owner has a Nominators entry; it is OperatorPoolFrozen on a frozen
\* pool and UnknownNominator for an owner without a Nominators entry. The
\* owner's entry is never All.
TheoremC7 ==
    \A o \in OperatorIds : \A a \in Accounts :
        (HasPool(o) /\ IsOwner(a, o))
            => LET r == do_withdraw_stake(Storage, o, a, WithdrawAll)
               IN /\ r.res # "Ok"
                  /\ r.st = Storage
                  /\ ~PendingAll(o, a)
                  /\ r.res = IF Frozen(o) THEN "OperatorPoolFrozen"
                             ELSE IF ~HasNominator(o, a) THEN "UnknownNominator"
                             ELSE "MinimumOperatorStake"

\* The owner has Some(1) pending on an active pool and asks for All: refused
\* with MinimumOperatorStake.
WitnessC7 ==
    /\ lastOk.op = "withdraw_stake" /\ lastOk.who = 0
    /\ ~Frozen(0)
    /\ Pending(0, 0) = Some(WithdrawSome(1))
    /\ do_withdraw_stake(Storage, 0, 0, WithdrawAll).res = "MinimumOperatorStake"

\* ------------------------------------------- withdrawals of a nominator
\* The amount already pending: a of a stored Some(a), 0 when nothing is stored.
PendingAmount(o, a) == IF IsSome(Pending(o, a)) THEN Unwrap(Pending(o, a)).amount ELSE 0

\* What only the PendingWithdrawals entry of (o, a) separates from Storage.
StoresOnly(st, o, a, w) == st = [Storage EXCEPT !.PendingWithdrawals[<<o, a>>] = Some(w)]

\* C8: for a nominator who is not the pool owner, a partial withdraw_stake
\* that returns Ok stores All exactly when nominator_stake minus the combined
\* pending amount (existing Some(a) plus the new Some(b), or b alone when
\* nothing is pending) is below pool.minimum_nominator_stake, and stores
\* Some(a+b) otherwise; it writes nothing else.
TheoremC8 ==
    \A o \in OperatorIds : \A a \in Accounts : \A b \in Balances :
        (HasPool(o) /\ ~IsOwner(a, o) /\ HasNominator(o, a))
            => LET r == do_withdraw_stake(Storage, o, a, WithdrawSome(b))
                   sum == PendingAmount(o, a) + b
               IN r.res = "Ok"
                  => StoresOnly(r.st, o, a,
                         IF StakeOf(o, a) - sum < PoolOf(o).minimum_nominator_stake
                         THEN WithdrawAll ELSE WithdrawSome(sum))

\* Nominator 1 has withdrawn 1 twice from a stake of 2: each withdrawal alone
\* leaves the minimum of 1, their sum leaves nothing, and All is stored.
WitnessC8 ==
    /\ lastOk.op = "withdraw_stake" /\ lastOk.who = 1
    /\ lastOk.withdraw = WithdrawSome(1)
    /\ ~IsOwner(1, 0)
    /\ StakeOf(0, 1) - 1 >= PoolOf(0).minimum_nominator_stake
    /\ StakeOf(0, 1) - 2 < PoolOf(0).minimum_nominator_stake
    /\ PendingAll(0, 1)

\* The ledger without the pending withdrawal of (o, a).
without_pending(o, a) == [Storage EXCEPT !.PendingWithdrawals[<<o, a>>] = None]

\* The outcome of a call equals the outcome of passing intent w with nothing
\* pending: same result, and on Ok the same stored entry.
AsIfAlone(r, o, a, w) ==
    LET alone == do_withdraw_stake(without_pending(o, a), o, a, w)
    IN /\ r.res = alone.res
       /\ IF r.res = "Ok"
          THEN StoresOnly(r.st, o, a, Unwrap(alone.st.PendingWithdrawals[<<o, a>>]))
          ELSE r.st = Storage

\* C9: on an active pool, for a nominator with a Nominators entry,
\* withdraw_stake combines the new intent with the stored one as:
\* (none, x) -> x; (Some(a), Some(b)) -> Some(a+b), failing with
\* BalanceOverflow when a+b overflows; (Some(a), All) -> All; (All, anything)
\* -> error ExistingFullWithdraw; the stake-floor rules are applied to the
\* combined value: the call ends as the combined intent would with nothing
\* pending.
TheoremC9 ==
    \A o \in OperatorIds : \A a \in Accounts : \A w \in AllIntents :
        (HasPool(o) /\ ~Frozen(o) /\ HasNominator(o, a))
            => LET r == do_withdraw_stake(Storage, o, a, w)
                   sum == PendingAmount(o, a) + w.amount
               IN IF PendingAll(o, a)
                  THEN r.res = "ExistingFullWithdraw" /\ r.st = Storage
                  ELSE IF w.kind = "All"
                  THEN AsIfAlone(r, o, a, WithdrawAll)
                  ELSE IF sum > MaxBalance
                  THEN r.res = "BalanceOverflow" /\ r.st = Storage
                  ELSE AsIfAlone(r, o, a, WithdrawSome(sum))

\* The owner's last call passed Some(1) and Some(2) is stored, the sum with
\* the Some(1) stored before; nominator 1 has All stored and a further
\* Some(1) is refused with ExistingFullWithdraw.
WitnessC9 ==
    /\ lastOk.op = "withdraw_stake" /\ lastOk.who = 0
    /\ lastOk.withdraw = WithdrawSome(1)
    /\ Pending(0, 0) = Some(WithdrawSome(2))
    /\ PendingAll(0, 1)
    /\ do_withdraw_stake(Storage, 0, 1, WithdrawSome(1)).res = "ExistingFullWithdraw"

\* A stored All stays All.
AllStays ==
    \A o \in OperatorIds : \A a \in Accounts :
        PendingAll(o, a) => PendingWithdrawals'[<<o, a>>] = Some(WithdrawAll)

\* C10 as stated: every further withdraw_stake on a stored All fails with
\* ExistingFullWithdraw.
OriginalC10 ==
    \A o \in OperatorIds : \A a \in Accounts : \A w \in AllIntents :
        PendingAll(o, a)
            => LET r == do_withdraw_stake(Storage, o, a, w)
               IN r.res = "ExistingFullWithdraw" /\ r.st = Storage

\* Every further withdraw_stake on a stored All fails and writes nothing.
AllRejects ==
    \A o \in OperatorIds : \A a \in Accounts : \A w \in AllIntents :
        PendingAll(o, a)
            => LET r == do_withdraw_stake(Storage, o, a, w)
               IN /\ r.res = IF Frozen(o) THEN "OperatorPoolFrozen"
                             ELSE "ExistingFullWithdraw"
                  /\ r.st = Storage

\* C10: once PendingWithdrawals[operator, nominator] = All (stored directly
\* or by promotion) it stays All in every state reachable by register,
\* nominate, switch, deregister and withdraw, and every further
\* withdraw_stake by that nominator on that operator, All or Some(_), fails
\* and writes nothing: with ExistingFullWithdraw while the pool is active,
\* with OperatorPoolFrozen once the pool is frozen.
TheoremC10 == []AllRejects /\ [][AllStays]_vars

\* The owner's deregistration, taken while nominator 1 holds an All: the All
\* is still there and a further withdrawal is refused with OperatorPoolFrozen.
WitnessC10 ==
    /\ lastOk.op = "deregister_operator"
    /\ Frozen(0)
    /\ PendingAll(0, 1)
    /\ do_withdraw_stake(Storage, 0, 1, WithdrawAll).res = "OperatorPoolFrozen"

\* ------------------------------------------------------ frozen balances
RECURSIVE SumOver(_, _)
SumOver(f, S) ==
    IF S = {} THEN 0
    ELSE LET x == CHOOSE y \in S : TRUE
         IN f[x] + SumOver(f, S \ {x})

\* What an account can still stake.
UsableBalance(a) == reducible_balance(Storage, a)

\* The pending deposits of an account, summed over all operators.
PendingDepositsOf(a) ==
    SumOver([o \in OperatorIds |->
                IF IsSome(PendingDeposits[<<o, a>>]) THEN Unwrap(PendingDeposits[<<o, a>>])
                ELSE 0], OperatorIds)

\* A successful register_operator or nominate_operator lowers the caller's
\* usable balance by exactly its amount.
StakeLowersUsable ==
    lastOk'.op \in {"register_operator", "nominate_operator"}
        => \A a \in Accounts :
              lastOk'.who = a => UsableBalance(a)' = UsableBalance(a) - lastOk'.amount

\* No register_operator or nominate_operator with more than the usable
\* balance returns Ok.
NoStakeBeyondUsable ==
    \A a \in Accounts : \A o \in OperatorIds : \A b \in Balances :
        b > UsableBalance(a)
            => /\ do_nominate_operator(Storage, o, a, b, TRUE).res # "Ok"
               /\ \A d \in DomainIds : \A c \in OperatorConfigs :
                     do_register_operator(Storage, a, d, b, c, TRUE).res # "Ok"

\* The pending deposits of an account never exceed its balance.
DepositsWithinBalance == \A a \in Accounts : PendingDepositsOf(a) <= FreeBalance[a]

\* C11: funds frozen for staking cannot be staked again: a successful
\* register_operator or nominate_operator with amount a lowers the caller's
\* usable balance by exactly a, no later register_operator or
\* nominate_operator with more than the remaining usable balance succeeds,
\* and the sum of an account's pending deposits over all operators never
\* exceeds the balance it started with.
OriginalC11 ==
    /\ []NoStakeBeyondUsable
    /\ []DepositsWithinBalance
    /\ [][StakeLowersUsable]_vars

\* ------------------------------------------------------------ ownership
\* C12: switch_operator_domain and deregister_operator succeed only for the
\* account stored in OperatorIdOwner[operator_id]: a call by any other
\* account, or on an operator id that has no owner entry, fails with
\* NotOperatorOwner whatever the other checks would say (unknown or frozen
\* pool, new domain not initialized) and changes nothing.
TheoremC12 ==
    \A o \in OperatorIds : \A a \in Accounts :
        LET dereg == do_deregister_operator(Storage, a, o)
        IN /\ ~IsOwner(a, o) => dereg.res = "NotOperatorOwner" /\ dereg.st = Storage
           /\ dereg.res = "Ok" => IsOwner(a, o)
           /\ \A d \in DomainIds :
                 LET switch == do_switch_operator_domain(Storage, a, o, d)
                 IN /\ ~IsOwner(a, o)
                          => switch.res = "NotOperatorOwner" /\ switch.st = Storage
                    /\ switch.res = "Ok" => IsOwner(a, o)

\* Operator 0 has just been deregistered by its owner, domain 1 is not
\* initialized and id 1 has no owner: account 1's switch of the frozen pool
\* to domain 1 and its deregistration of id 1 are refused as NotOperatorOwner.
WitnessC12 ==
    /\ lastOk.op = "deregister_operator" /\ lastOk.operator_id = 0
    /\ IsOwner(lastOk.who, 0) /\ ~IsOwner(1, 0)
    /\ Frozen(0)
    /\ ~IsSome(DomainStakingSummary[1])
    /\ ~IsSome(OperatorIdOwner[1])
    /\ do_switch_operator_domain(Storage, 1, 0, 1).res = "NotOperatorOwner"
    /\ do_deregister_operator(Storage, 1, 1).res = "NotOperatorOwner"

\* ------------------------------------------------------- effects of calls
SummaryOf(summaries, d) == Unwrap(summaries[d])

\* What a successful register_operator leaves behind.
RegistrationEffect ==
    \A id \in OperatorIds : \A a \in Accounts : \A d \in DomainIds :
        ( /\ lastOk'.op = "register_operator"
          /\ lastOk'.ret = Some(id) /\ lastOk'.who = a /\ lastOk'.domain_id = d )
        => /\ lastOk'.amount >= MinOperatorStake
           /\ IsSome(DomainStakingSummary[d])
           /\ OperatorIdOwner'[id] = Some(a)
           /\ OperatorPools'[id] =
                  Some([ signing_key |-> lastOk'.config.signing_key,
                         current_domain_id |-> d,
                         next_domain_id |-> d,
                         minimum_nominator_stake |-> lastOk'.config.minimum_nominator_stake,
                         nomination_tax |-> lastOk'.config.nomination_tax,
                         current_total_stake |-> 0,
                         current_epoch_rewards |-> 0,
                         total_shares |-> 0,
                         is_frozen |-> FALSE ])
           /\ SummaryOf(DomainStakingSummary', d).next_operators
                  = Append(SummaryOf(DomainStakingSummary, d).next_operators, id)
           /\ SummaryOf(DomainStakingSummary', d).current_operators
                  = SummaryOf(DomainStakingSummary, d).current_operators
           /\ PendingDeposits'[<<id, a>>] = Some(lastOk'.amount)

\* C13: a successful register_operator(owner, domain_id, amount, config) has
\* amount >= MinOperatorStake and an initialized domain, and leaves
\* OperatorIdOwner[id] = owner; OperatorPools[id] with current_domain_id =
\* next_domain_id = domain_id, the config's signing key,
\* minimum_nominator_stake and nomination_tax, current_total_stake =
\* current_epoch_rewards = total_shares = 0 and is_frozen = false; id appended
\* at the end of the domain's next_operators, current_operators unchanged;
\* and PendingDeposits[id, owner] = amount.
TheoremC13 == [][RegistrationEffect]_vars

\* Operator 1 has been registered on domain 0 after operator 0, with the
\* second config: it is the last of next_operators, behind operator 0, and
\* its pool carries the config's minimum and tax.
WitnessC13 ==
    /\ lastOk.op = "register_operator" /\ lastOk.ret = Some(1)
    /\ lastOk.domain_id = 0 /\ lastOk.config.minimum_nominator_stake = 2
    /\ SummaryOf(DomainStakingSummary, 0).next_operators = <<0, 1>>
    /\ HasPool(1) /\ PoolOf(1).minimum_nominator_stake = 2 /\ PoolOf(1).nomination_tax = 5
    /\ PendingDeposits[<<1, lastOk.who>>] = Some(lastOk.amount)

Contains(v, x) == \E i \in 1..Len(v) : v[i] = x
SwitchesOf(switches, d) == IF IsSome(switches[d]) THEN Unwrap(switches[d]) ELSE <<>>

\* What a successful switch_operator_domain leaves behind.
SwitchEffect ==
    \A id \in OperatorIds : \A new \in DomainIds : \A cur \in DomainIds :
        ( /\ lastOk'.op = "switch_operator_domain"
          /\ lastOk'.operator_id = id /\ lastOk'.domain_id = new
          /\ HasPool(id) /\ PoolOf(id).current_domain_id = cur )
        => /\ lastOk'.ret = Some(cur)
           /\ OperatorPools'[id] = Some([PoolOf(id) EXCEPT !.next_domain_id = new])
           /\ ~Contains(SummaryOf(DomainStakingSummary', cur).next_operators, id)
           /\ SummaryOf(DomainStakingSummary', cur).next_operators
                  = SelectSeq(SummaryOf(DomainStakingSummary, cur).next_operators,
                              LAMBDA x : x # id)
           /\ new # cur => DomainStakingSummary'[new] = DomainStakingSummary[new]
           /\ ~Contains(SummaryOf(DomainStakingSummary', new).next_operators, id)
           /\ \A d \in {cur, new} :
                 SummaryOf(DomainStakingSummary', d).current_operators
                     = SummaryOf(DomainStakingSummary, d).current_operators
           /\ SwitchesOf(PendingOperatorSwitches', cur)
                  = Append(SwitchesOf(PendingOperatorSwitches, cur), id)
           /\ new # cur => PendingOperatorSwitches'[new] = PendingOperatorSwitches[new]

\* C14: a successful switch_operator_domain(owner, id, new_domain) returns
\* the pool's current_domain_id and leaves pool.next_domain_id = new_domain
\* with the rest of the pool, current_domain_id included, unchanged; id is
\* removed from next_operators of the current domain and is not in
\* next_operators of the new domain, whose summary is untouched;
\* current_operators of both domains are unchanged; id is appended to
\* PendingOperatorSwitches of the current domain.
TheoremC14 == [][SwitchEffect]_vars

\* Operator 0, active on domain 0, has been switched to domain 1: the call
\* returned 0, the operator is still in current_operators of domain 0, in no
\* next_operators, and queued in the switches of domain 0.
WitnessC14 ==
    /\ lastOk.op = "switch_operator_domain" /\ lastOk.operator_id = 0
    /\ lastOk.domain_id = 1 /\ lastOk.ret = Some(0)
    /\ PoolOf(0).current_domain_id = 0 /\ PoolOf(0).next_domain_id = 1
    /\ SummaryOf(DomainStakingSummary, 0).current_operators = <<0>>
    /\ SummaryOf(DomainStakingSummary, 0).next_operators = <<>>
    /\ SummaryOf(DomainStakingSummary, 1).next_operators = <<>>
    /\ PendingOperatorSwitches[0] = Some(<<0>>)

Deregistrations ==
    IF IsSome(PendingOperatorDeregistrations) THEN Unwrap(PendingOperatorDeregistrations)
    ELSE <<>>

\* What a successful deregister_operator leaves behind.
DeregistrationEffect ==
    \A id \in OperatorIds : \A cur \in DomainIds :
        ( /\ lastOk'.op = "deregister_operator" /\ lastOk'.operator_id = id
          /\ HasPool(id) /\ PoolOf(id).current_domain_id = cur )
        => /\ ~PoolOf(id).is_frozen
           /\ OperatorPools'[id] = Some([PoolOf(id) EXCEPT !.is_frozen = TRUE])
           /\ SummaryOf(DomainStakingSummary', cur).next_operators
                  = SelectSeq(SummaryOf(DomainStakingSummary, cur).next_operators,
                              LAMBDA x : x # id)
           /\ SummaryOf(DomainStakingSummary', cur).current_operators
                  = SummaryOf(DomainStakingSummary, cur).current_operators
           /\ Deregistrations' = Append(Deregistrations, id)

\* An id is queued for deregistration exactly when its pool is frozen, and
\* then once.
DeregisteredIffFrozen ==
    \A o \in OperatorIds :
        /\ Contains(Deregistrations, o) <=> Frozen(o)
        /\ Cardinality({i \in 1..Len(Deregistrations) : Deregistrations[i] = o}) <= 1

\* C15: a successful deregister_operator(owner, id) sets pool.is_frozen =
\* true, removes id from next_operators of the pool's current domain, leaves
\* current_operators unchanged and appends id to
\* PendingOperatorDeregistrations; in every state reached by register,
\* nominate, switch, deregister and withdraw an operator id is in
\* PendingOperatorDeregistrations exactly when its pool is frozen, and it is
\* there at most once.
TheoremC15 == []DeregisteredIffFrozen /\ [][DeregistrationEffect]_vars

\* Two operators have been deregistered, operator 0 last: both pools are
\* frozen, both ids are queued in the order of the calls, and operator 0 is
\* gone from next_operators of its domain.
WitnessC15 ==
    /\ lastOk.op = "deregister_operator" /\ lastOk.operator_id = 0
    /\ Frozen(0) /\ Frozen(1)
    /\ Deregistrations = <<1, 0>>
    /\ ~Contains(SummaryOf(DomainStakingSummary, PoolOf(0).current_domain_id).next_operators, 0)

\* -------------------------------------------------------------- shares
\* The shares of the nominators of a pool.
SharesOf(o) ==
    SumOver([a \in Accounts |->
                IF IsSome(Nominators[<<o, a>>]) THEN Unwrap(Nominators[<<o, a>>]).shares
                ELSE 0], Accounts)

SharesAddUp == \A o \in OperatorIds : HasPool(o) => PoolOf(o).total_shares = SharesOf(o)

\* No call touches a nominator's shares or the stake, rewards and shares of
\* an existing pool.
StakeUntouched ==
    /\ Nominators' = Nominators
    /\ \A o \in OperatorIds :
          HasPool(o) =>
              /\ IsSome(OperatorPools'[o])
              /\ Unwrap(OperatorPools'[o]).total_shares = PoolOf(o).total_shares
              /\ Unwrap(OperatorPools'[o]).current_total_stake = PoolOf(o).current_total_stake
              /\ Unwrap(OperatorPools'[o]).current_epoch_rewards
                     = PoolOf(o).current_epoch_rewards

\* C16: for every operator pool, total_shares equals the sum of
\* Nominators[operator, *].shares in every state reached by register,
\* nominate, switch, deregister and withdraw: none of the five operations
\* changes a Nominators entry or the total_shares, current_total_stake or
\* current_epoch_rewards of a pool; deposits and withdrawals are only recorded
\* as pending.
TheoremC16 == []SharesAddUp /\ [][StakeUntouched]_vars

\* On the pool with 5 shares and a stake of 5, a nomination and a withdrawal
\* have been recorded as pending and the shares and the stake are as they
\* were.
WitnessC16 ==
    /\ lastOk.op = "withdraw_stake" /\ lastOk.operator_id = 0
    /\ IsSome(PendingDeposits[<<0, 1>>])
    /\ IsSome(PendingWithdrawals[<<0, lastOk.who>>])
    /\ PoolOf(0).total_shares = 5 /\ SharesOf(0) = 5
    /\ PoolOf(0).current_total_stake = 5 /\ PoolOf(0).current_epoch_rewards = 1

\* --------------------------------------------------------- fork choice
\* The best header is stored, no stored header is heavier, and none of the
\* same weight has a greater number.
BestIsHeaviest ==
    /\ IsSome(header_of(store, store.best))
    /\ \A e \in store.headers :
          /\ e.total_weight <= best_header(store).total_weight
          /\ e.total_weight = best_header(store).total_weight
                 => e.header.number <= best_header(store).header.number

ExtOf(st, header) == Unwrap(header_of(st, Hash(header)))

\* The header a step has imported becomes best exactly under the three
\* conditions, and otherwise the best header stays.
BestExactlyWhen ==
    store' # store =>
        LET header == lastImport'.header
            total_weight == ExtOf(store', header).total_weight
            best == best_header(store)
            wins == \/ header.parent_hash = store.best
                    \/ total_weight > best.total_weight
                    \/ /\ total_weight = best.total_weight
                       /\ header.number > best.header.number
        IN /\ lastImport'.as_best_header <=> wins
           /\ store'.best = IF wins THEN Hash(header) ELSE store.best
           /\ ( /\ header.parent_hash = best.header.parent_hash
                /\ total_weight = best.total_weight
                /\ header.number = best.header.number ) => store'.best = store.best

\* C18: a successfully imported header is stored as best exactly when its
\* parent is the current best header, or its total_weight is strictly
\* greater than the best header's, or its total_weight is equal and its
\* number is strictly greater; otherwise it is stored without changing
\* best_header(). A sibling of the best header with equal total weight and
\* equal number does not displace it, and a later child of that sibling with
\* strictly greater total weight becomes best.
TheoremC18 == [][BestExactlyWhen]_vars

\* The header imported last is the child of a sibling of the header that was
\* best until then: the sibling is as heavy as that header and has its
\* number, and was not best; the child is heavier and is the best header now.
WitnessC18 ==
    /\ lastImport.as_best_header /\ store.best = Hash(lastImport.header)
    /\ \E sibling \in store.headers : \E first \in store.headers :
          /\ Hash(sibling.header) = lastImport.header.parent_hash
          /\ Hash(first.header) = lastImport.last_best
          /\ Hash(first.header) # Hash(sibling.header)
          /\ first.header.parent_hash = sibling.header.parent_hash
          /\ first.total_weight = sibling.total_weight
          /\ first.header.number = sibling.header.number
          /\ best_header(store).total_weight > first.total_weight

\* ------------------------------------------------------ repeated imports
\* Importing a stored header again is refused and changes nothing.
NotRepeatable ==
    \A e \in store.headers :
        LET r == import_header(store, e.header)
        IN r.res = "HeaderAlreadyImported" /\ r.st = store

\* A stored header stays stored, as it is.
HeadersStay == store.headers \subseteq store'.headers

\* C19: import_header is not repeatable: once import_header(h) has returned
\* Ok, every later import_header(h) on that store returns
\* HeaderAlreadyImported and leaves the store, best_header() included,
\* unchanged; the check is made before the parent lookup, so the genesis
\* header, whose parent is not stored, is refused as already imported too.
TheoremC19 == []NotRepeatable /\ [][HeadersStay]_vars

\* Two headers have been imported; the first of them and the genesis header
\* are refused as already imported.
WitnessC19 ==
    /\ lastImport.calls = <<"store_header">>
    /\ \E e \in store.headers :
          /\ e.header # GenesisHeader /\ e.header # lastImport.header
          /\ import_header(store, e.header).res = "HeaderAlreadyImported"
    /\ ~IsSome(header_of(store, GenesisHeader.parent_hash))
    /\ import_header(store, GenesisHeader).res = "HeaderAlreadyImported"

\* ---------------------------------------------------- writes of an import
ImportErrors ==
    { "HeaderAlreadyImported", "MissingParent", "DigestExtractionError",
      "InvalidDigest(GlobalRandomness)", "InvalidDigest(SolutionRange)",
      "InvalidDigest(Salt)", "InvalidDigest(Seal)", "InvalidSlot",
      "InvalidBlockSignature", "InvalidSolution" }

\* What import_header returns for a header: an error and the store as it
\* was, or Ok and the store with this one header more, written by one
\* store_header call.
SingleWrite(header) ==
    LET r == import_header(store, header)
    IN IF r.res = "Ok"
       THEN /\ r.calls = <<"store_header">>
            /\ \E e \in r.st.headers :
                  /\ e.header = header
                  /\ e \notin store.headers
                  /\ r.st.headers = store.headers \cup {e}
            /\ r.st.best \in {store.best, Hash(header)}
            /\ r.st.finalized = store.finalized
       ELSE /\ r.res \in ImportErrors
            /\ r.calls = <<>>
            /\ r.st = store

\* C20: import_header writes to the store only through a single store_header
\* call made as its last step: whenever it returns an error
\* (HeaderAlreadyImported, MissingParent, DigestExtractionError,
\* InvalidDigest, InvalidSlot, InvalidBlockSignature, InvalidSolution) the
\* stored headers, best header and finalized header are exactly as before;
\* when it returns Ok exactly one header is added, no stored header is
\* modified or removed, the finalized header stays, and prune_header and
\* finalize_header are not called.
TheoremC20 == \A header \in Candidates(store) : SingleWrite(header)

\* After a successful import that added one header by one store_header call,
\* each of the errors is returned for some header, and a further header is
\* accepted.
WitnessC20 ==
    /\ lastImport.calls = <<"store_header">>
    /\ Cardinality(store.headers) = 2
    /\ \A err \in ImportErrors :
          \E header \in Candidates(store) : import_header(store, header).res = err
    /\ \E header \in Candidates(store) : import_header(store, header).res = "Ok"

\* ------------------------------------------------------- missing parent
\* C21 as stated: every header whose parent_hash is not in the store is
\* refused with MissingParent.
OriginalC21 ==
    \A header \in Candidates(store) :
        ~IsSome(header_of(store, header.parent_hash))
            => import_header(store, header).res = "MissingParent"

\* A header that is not stored and whose parent is not stored is refused
\* with MissingParent of its own hash, and nothing is stored; a stored one
\* whose parent is not stored is refused as already imported.
MissingParentFails ==
    \A header \in Candidates(store) :
        ~IsSome(header_of(store, header.parent_hash))
            => LET r == import_header(store, header)
               IN /\ r.st = store /\ r.calls = <<>>
                  /\ IF IsSome(header_of(store, Hash(header)))
                     THEN r.res = "HeaderAlreadyImported"
                     ELSE /\ r.res = "MissingParent"
                          /\ r.arg = Hash(header)
                          /\ r.arg # header.parent_hash

\* The header a step stores has its parent in the store the step starts from.
ParentPresentAtInsert ==
    \A e \in store'.headers \ store.headers :
        IsSome(header_of(store, e.header.parent_hash))

\* Every stored header but the genesis header has its parent stored.
ParentsStored ==
    \A e \in store.headers :
        e.header # GenesisHeader => IsSome(header_of(store, e.header.parent_hash))

\* C21: import_header of a header that is not in the store and whose
\* parent_hash is not in the store fails with MissingParent carrying the
\* imported header's own hash (not the parent's) and stores nothing (a stored
\* header without stored parent, the genesis header, is refused with
\* HeaderAlreadyImported); every non-genesis header stored by import_header
\* had its parent in the store at the moment it was inserted.
TheoremC21 == []MissingParentFails /\ []ParentsStored /\ [][ParentPresentAtInsert]_vars

\* After a successful import of a child of a stored header, a header with an
\* unknown parent is refused with MissingParent of its own hash, and the
\* genesis header, whose parent is unknown as well, as already imported.
WitnessC21 ==
    /\ lastImport.calls = <<"store_header">>
    /\ IsSome(header_of(store, lastImport.header.parent_hash))
    /\ \E header \in Candidates(store) :
          /\ header.parent_hash = UnknownHash
          /\ import_header(store, header).res = "MissingParent"
          /\ import_header(store, header).arg = Hash(header)
    /\ ~IsSome(header_of(store, GenesisHeader.parent_hash))
    /\ import_header(store, GenesisHeader).res = "HeaderAlreadyImported"

\* ------------------------------------------------------------- slots
\* The hashes of the stored ancestors of the header with this hash.
RECURSIVE AncestorsOf(_, _)
AncestorsOf(st, hash) ==
    IF IsSome(header_of(st, hash)) /\ IsSome(header_of(st, HeaderAt(st, hash).parent_hash))
    THEN {HeaderAt(st, hash).parent_hash} \cup AncestorsOf(st, HeaderAt(st, hash).parent_hash)
    ELSE {}

\* C22 as stated: every header whose slot is not above the slot of its
\* stored parent is refused with InvalidSlot.
OriginalC22 ==
    \A header \in Candidates(store) :
        ( /\ IsSome(header_of(store, header.parent_hash))
          /\ header.slot <= SlotOf(store, header.parent_hash) )
            => import_header(store, header).res = "InvalidSlot"

\* The header passes the checks that come before the slot: it is not stored,
\* its digest items can be extracted and its global randomness, solution
\* range and salt are the derived ones of its parent.
ReachesSlotCheck(header) ==
    LET parent == Unwrap(header_of(store, header.parent_hash))
    IN /\ ~IsSome(header_of(store, Hash(header)))
       /\ header.digest_items # "missing"
       /\ header.global_randomness = parent.derived_global_randomness
       /\ header.solution_range = parent.derived_solution_range
       /\ header.salt = parent.derived_salt

\* A header whose slot is not above its parent's is never stored, and is
\* refused with InvalidSlot when it gets as far as the slot check.
StaleSlotFails ==
    \A header \in Candidates(store) :
        ( /\ IsSome(header_of(store, header.parent_hash))
          /\ header.slot <= SlotOf(store, header.parent_hash) )
            => LET r == import_header(store, header)
               IN /\ r.res # "Ok" /\ r.st = store
                  /\ ReachesSlotCheck(header) => r.res = "InvalidSlot"

\* The slot of every stored header is above the slot of each of its
\* ancestors.
SlotsIncrease ==
    \A e \in store.headers : \A a \in AncestorsOf(store, Hash(e.header)) :
        SlotOf(store, a) < e.header.slot

\* C22: import_header never accepts a header whose pre-digest slot is less
\* than or equal to its parent's (equality included), and fails with
\* InvalidSlot whenever such a header is not yet stored and its digest items
\* agree with the parent's derived values (an earlier check answers
\* otherwise); so the slot of every header stored by import_header is
\* strictly greater than its parent's, and slots strictly increase along
\* every chain in the store.
TheoremC22 == StaleSlotFails /\ SlotsIncrease

\* A chain of two imported headers is stored; a further child in the slot of
\* its parent and one in a slot below are refused with InvalidSlot, and one
\* with a stale slot and a wrong global randomness with InvalidDigest.
WitnessC22 ==
    /\ \E e \in store.headers : Cardinality(AncestorsOf(store, Hash(e.header))) = 2
    /\ \E header \in Candidates(store) :
          /\ header.parent_hash = Hash(lastImport.header)
          /\ header.slot = lastImport.header.slot
          /\ import_header(store, header).res = "InvalidSlot"
    /\ \E header \in Candidates(store) :
          /\ header.parent_hash = Hash(lastImport.header)
          /\ header.slot < lastImport.header.slot
          /\ import_header(store, header).res = "InvalidSlot"
    /\ \E header \in Candidates(store) :
          /\ header.parent_hash = Hash(lastImport.header)
          /\ header.slot <= lastImport.header.slot
          /\ import_header(store, header).res = "InvalidDigest(GlobalRandomness)"

\* ------------------------------------------------------ derived values
\* The digest value of a header that is the first, in the order global
\* randomness, solution range, salt, to differ from the derived value of the
\* parent; "Ok" when none differs.
FirstDiffering(parent, header) ==
    CASE header.global_randomness # parent.derived_global_randomness
            -> "InvalidDigest(GlobalRandomness)"
      [] /\ header.global_randomness = parent.derived_global_randomness
         /\ header.solution_range # parent.derived_solution_range
            -> "InvalidDigest(SolutionRange)"
      [] /\ header.global_randomness = parent.derived_global_randomness
         /\ header.solution_range = parent.derived_solution_range
         /\ header.salt # parent.derived_salt
            -> "InvalidDigest(Salt)"
      [] OTHER -> "Ok"

\* A new header with a stored parent and digest items is refused with the
\* InvalidDigest of the first value that differs, and nothing is stored.
DigestOrder ==
    \A header \in Candidates(store) :
        ( /\ IsSome(header_of(store, header.parent_hash))
          /\ ~IsSome(header_of(store, Hash(header)))
          /\ header.digest_items # "missing" )
            => LET parent == Unwrap(header_of(store, header.parent_hash))
                   r == import_header(store, header)
               IN IF FirstDiffering(parent, header) = "Ok"
                  THEN r.res \notin { "InvalidDigest(GlobalRandomness)",
                                      "InvalidDigest(SolutionRange)",
                                      "InvalidDigest(Salt)" }
                  ELSE r.res = FirstDiffering(parent, header) /\ r.st = store

\* Two stored headers have the same derived values.
SameDerived(a, b) ==
    /\ a.derived_global_randomness = b.derived_global_randomness
    /\ a.derived_solution_range = b.derived_solution_range
    /\ a.derived_salt = b.derived_salt

\* The header a step stores has the derived values of its parent, which are
\* its own digest values.
DerivedCarried ==
    \A e \in store'.headers \ store.headers :
        /\ SameDerived(e, Unwrap(header_of(store, e.header.parent_hash)))
        /\ e.derived_global_randomness = e.header.global_randomness
        /\ e.derived_solution_range = e.header.solution_range
        /\ e.derived_salt = e.header.salt

\* Every stored header has the derived values of the genesis header.
GenesisDerived ==
    \A e \in store.headers : SameDerived(e, ExtOf(store, GenesisHeader))

WeightExact ==
    \A e \in store.headers :
        e.header # GenesisHeader =>
            LET parent == Unwrap(header_of(store, e.header.parent_hash))
                block_weight == MaxBlockWeight - e.header.distance
            IN /\ block_weight \in 0..MaxBlockWeight
               /\ e.total_weight = parent.total_weight + block_weight
               /\ e.total_weight >= parent.total_weight

\* C24: the total_weight stored for an imported header equals
\* parent.total_weight + block_weight as exact integers, with block_weight =
\* u64::MAX - bidirectional_distance(target, tag) in [0, 2^64-1], so
\* total_weight never decreases from parent to child; the 128-bit addition
\* never wraps silently: when the sum exceeds 2^128-1 no header with a
\* wrapped, smaller total_weight is stored.
OriginalC24 == WeightExact

\* ------------------------------------------------------------ ancestors
\* The numbers asked for: those of the stored headers and one more.
Numbers(st) == 0..(MaxOver([e \in st.headers |-> e.header.number], st.headers) + 1)

\* What find_ancestor_of_header_at_number is to return for a stored header:
\* None at and above its number, below it an ancestor with that number.
AncestorFound(h, n, r) ==
    IF n >= h.header.number THEN r = None
    ELSE /\ IsSome(r)
         /\ Unwrap(r).header.number = n
         /\ Hash(Unwrap(r).header) \in AncestorsOf(store, Hash(h.header))

\* C25: find_ancestor_of_header_at_number(store, h, n) returns None when
\* n >= h.number; for a stored header h and n < h.number it returns Some(a)
\* where a.number = n and a lies on the parent_hash chain of h, also in the
\* two short-circuit cases (n <= finalized_header.number, or exactly one
\* stored header at height n), where it returns the first element of
\* headers_at_number(n) without walking the chain.
OriginalC25 ==
    \A h \in store.headers : \A n \in Numbers(store) :
        \A r \in find_ancestor_of_header_at_number(store, h, n) : AncestorFound(h, n, r)

\* -------------------------------------------------------------- pruning
\* The hashes of the stored headers that descend from the header with this
\* hash through parent_hash links.
DescendantsOf(st, hash) ==
    {Hash(e.header) : e \in {d \in st.headers : hash \in AncestorsOf(st, Hash(d.header))}}

\* prune_chain_from_header of a stored header prunes the header and its
\* descendants and nothing else.
PrunesSubtree(h) ==
    LET r == prune_chain_from_header(store, h)
        subtree == {Hash(h.header)} \cup DescendantsOf(store, Hash(h.header))
    IN /\ r.calls = subtree
       /\ r.st.headers = {e \in store.headers : Hash(e.header) \notin subtree}

\* C26: prune_chain_from_header(store, h) terminates on every finite store
\* and calls prune_header on exactly the set consisting of h and every stored
\* header that descends from h through parent_hash links (children,
\* grandchildren, ... across all forks), and on no header outside that
\* subtree (siblings of h and their descendants are kept).
OriginalC26 == \A h \in store.headers : PrunesSubtree(h)

\* ------------------------------------------------- piece cache: round trip
\* The offsets of the open cache, and those that hold a piece.
Slots == 0..(Unwrap(cache) - 1)
Occupied(f) == {o \in Slots : IsSome(read_piece_index(f, Unwrap(cache), o))}

\* Both reads of an offset return what was written there last, and None when
\* nothing was.
ReadsBack(o) ==
    IF IsSome(written[o])
    THEN /\ read_piece(file, Unwrap(cache), o) = Some(Unwrap(written[o]).piece)
         /\ read_piece_index(file, Unwrap(cache), o) = Some(Unwrap(written[o]).piece_index)
    ELSE /\ read_piece(file, Unwrap(cache), o) = None
         /\ read_piece_index(file, Unwrap(cache), o) = None

\* A step of the open cache changes one slot at most.
OneSlot ==
    (cache # None /\ cache' = cache) =>
        \E o \in Offsets : \A other \in Slots \ {o} :
            /\ written'[other] = written[other]
            /\ Unwrap(file')[other + 1] = Unwrap(file)[other + 1]

\* A write to an occupied offset leaves the number of occupied slots.
SameCount ==
    (cache # None /\ cache' = cache) =>
        \A o \in Slots :
            (written'[o] # written[o] /\ o \in Occupied(file))
                => Cardinality(Occupied(file')) = Cardinality(Occupied(file))

\* C27 as stated: every piece index reads back.
OriginalC27 ==
    /\ [](cache # None => \A o \in Slots : ReadsBack(o))
    /\ [][OneSlot /\ SameCount]_vars

\* The same for the writes of a piece index other than the one that denotes
\* an empty slot; a slot written with that one reads as empty.
ReadsBackStored(o) ==
    IF IsSome(written[o]) /\ Unwrap(written[o]).piece_index = EmptySlot
    THEN /\ read_piece(file, Unwrap(cache), o) = None
         /\ read_piece_index(file, Unwrap(cache), o) = None
    ELSE ReadsBack(o)

SameCountStored ==
    (cache # None /\ cache' = cache) =>
        \A o \in Slots :
            ( /\ written'[o] # written[o] /\ o \in Occupied(file)
              /\ Unwrap(written'[o]).piece_index # EmptySlot )
                => Cardinality(Occupied(file')) = Cardinality(Occupied(file))

\* C27: after write_piece(o, i, p) with o < capacity and i other than the
\* all-ones piece index returns Ok, read_piece(o) = Some(p) and
\* read_piece_index(o) = Some(i) until the next write to o or a wipe; a write
\* to an occupied offset replaces both the index and the piece (the last write
\* wins) without changing the number of occupied slots, and a write to o
\* leaves every other slot as it was; a slot never written reads as None for
\* both. A slot written with the all-ones piece index reads as None for both.
TheoremC27 ==
    /\ [](cache # None => \A o \in Slots : ReadsBackStored(o))
    /\ [][OneSlot /\ SameCountStored]_vars

\* A cache of two slots: offset 0 holds the piece and index of a write that
\* replaced another piece, offset 1 has never been written.
WitnessC27 ==
    /\ cache = Some(2)
    /\ IsSome(written[0]) /\ Unwrap(written[0]).replaced
    /\ Unwrap(written[0]).piece_index = 1
    /\ read_piece_index(file, 2, 0) = Some(1)
    /\ read_piece(file, 2, 0) = Some(Unwrap(written[0]).piece)
    /\ written[1] = None /\ read_piece(file, 2, 1) = None

\* -------------------------------------------- piece cache: outside the range
\* A write at or above the capacity fails with OffsetOutsideOfRange of the
\* offset and the capacity and leaves the file; a write below it does not
\* fail with that error.
RangeChecked ==
    cache # None =>
        \A offset \in Offsets, piece_index \in PieceIndexes, piece \in Pieces,
           io_ok \in BOOLEAN :
            LET r == write_piece(file, Unwrap(cache), offset, piece_index, piece, io_ok)
            IN IF offset >= Unwrap(cache)
               THEN /\ r.res = "OffsetOutsideOfRange"
                    /\ r.provided = offset /\ r.max = Unwrap(cache)
                    /\ r.file = file
               ELSE r.res # "OffsetOutsideOfRange"

\* C28: write_piece(o, i, p) on a cache opened with capacity N fails with
\* OffsetOutsideOfRange { provided: o, max: N } for every o >= N (o = N
\* included) and leaves every slot unchanged; it never fails with that error
\* for o < N.
TheoremC28 == RangeChecked

\* A cache of two slots, both written: a write at offset 2 fails with
\* OffsetOutsideOfRange { provided: 2, max: 2 }, a write at offset 1 succeeds.
WitnessC28 ==
    /\ cache = Some(2) /\ lastCache.op = "write_piece"
    /\ IsSome(written[0]) /\ IsSome(written[1])
    /\ write_piece(file, 2, 2, 0, DefaultPiece, TRUE).res = "OffsetOutsideOfRange"
    /\ write_piece(file, 2, 2, 0, DefaultPiece, TRUE).max = 2
    /\ write_piece(file, 2, 1, 0, DefaultPiece, TRUE).res = "Ok"

\* ------------------------------------------------- piece cache: reopening
\* What contents() is to report: for every offset below the capacity, in
\* order, the piece index written there last, if any.
LastWritten(capacity) ==
    [o \in 1..capacity |->
        <<o - 1, IF IsSome(written[o - 1]) THEN Some(Unwrap(written[o - 1]).piece_index)
                 ELSE None>>]

\* The same, a write of the piece index that denotes an empty slot counting
\* as none.
LastStored(capacity) ==
    [o \in 1..capacity |->
        <<o - 1, IF IsSome(written[o - 1]) /\ Unwrap(written[o - 1]).piece_index # EmptySlot
                 THEN Some(Unwrap(written[o - 1]).piece_index)
                 ELSE None>>]

\* Opening the file again changes nothing in it, and the pieces read as
\* before.
ReopenKeeps ==
    (cache = None /\ cache' # None /\ lastCache'.op = "reopen") =>
        /\ file' = file
        /\ Len(Unwrap(file')) = Unwrap(cache')
        /\ \A o \in 0..(Unwrap(cache') - 1) :
              read_piece(file', Unwrap(cache'), o)
                  = read_piece(file, Unwrap(cache'), o)

\* C29 as stated: contents() reports the piece index of every last write.
OriginalC29 ==
    /\ [](cache # None => contents(file, Unwrap(cache)) = LastWritten(Unwrap(cache)))
    /\ [][ReopenKeeps]_vars

\* C29: after any sequence of successful writes, dropping the handle and
\* calling open(path, N) with the same capacity yields a cache whose
\* contents() has exactly N entries in increasing offset order and reports,
\* for every offset, the piece index of the last write to that offset if that
\* is not the all-ones piece index (None for it and for offsets never
\* written), with read_piece returning the same pieces as before the drop.
TheoremC29 ==
    /\ [](cache # None =>
             /\ Len(contents(file, Unwrap(cache))) = Unwrap(cache)
             /\ contents(file, Unwrap(cache)) = LastStored(Unwrap(cache)))
    /\ [][ReopenKeeps]_vars

\* A cache of two slots opened again: contents() reports the two piece
\* indexes written before the handle was dropped.
WitnessC29 ==
    /\ lastCache.op = "reopen" /\ cache = Some(2)
    /\ IsSome(written[0]) /\ IsSome(written[1])
    /\ contents(file, 2) = << <<0, Some(2)>>, <<1, Some(1)>> >>

\* --------------------------------------------------- piece cache: wiping
\* What open returns for a capacity when there is no file.
Fresh(capacity) == open(None, capacity).file

\* A wipe leaves no file, or one without records, whatever it held.
WipeEmpties == lastCache'.op = "wipe" => file' \in {None, Some(<<>>)}

\* After a wipe, open with any capacity gives a cache as it is when created:
\* every slot reads as empty, writes below the capacity succeed and a write
\* at the capacity is refused.
OpensFresh ==
    (cache = None /\ lastCache.op = "wipe") =>
        \A capacity \in Capacities :
            LET r == open(file, capacity)
            IN /\ r.res = "Ok" /\ r.file = Fresh(capacity)
               /\ contents(r.file, capacity) = [o \in 1..capacity |-> <<o - 1, None>>]
               /\ \A o \in 0..(capacity - 1) :
                     /\ read_piece(r.file, capacity, o) = None
                     /\ read_piece_index(r.file, capacity, o) = None
                     /\ write_piece(r.file, capacity, o, 0, DefaultPiece, TRUE).res = "Ok"
               /\ write_piece(r.file, capacity, capacity, 0, DefaultPiece, TRUE).res
                     = "OffsetOutsideOfRange"

\* C30: after wipe(path), for any prior contents, a subsequent open(path, N)
\* with the same capacity observes the same state as a freshly created cache:
\* contents() yields N entries that are all None and every read_piece and
\* read_piece_index returns None; the capacity is unchanged, so writes at
\* offsets below N succeed again and writes at N fail.
TheoremC30 == []OpensFresh /\ [][WipeEmpties]_vars

\* A cache of two slots created on a path where stored pieces were wiped:
\* nothing is stored in it.
WitnessC30 ==
    /\ lastCache.op = "create" /\ lastCache.wiped /\ cache = Some(2)
    /\ contents(file, 2) = << <<0, None>>, <<1, None>> >>
    /\ written = NeverWritten

\* ------------------------------------------------------ pending deposits
\* The pending deposit of an account with an operator, 0 when absent.
DepositOf(deposits, o, a) ==
    IF IsSome(deposits[<<o, a>>]) THEN Unwrap(deposits[<<o, a>>]) ELSE 0

\* No epoch has passed: no deposit has been converted into shares.
NoShares == \A k \in OperatorIds \X Accounts : ~IsSome(Nominators[k])

\* A successful nominate_operator adds its amount to the nominator's pending
\* deposit with the operator and to what is frozen on the nominator under
\* the operator's freeze identity, and touches no other deposit or freeze.
NominationEffect ==
    lastOk'.op = "nominate_operator"
        => LET o == lastOk'.operator_id
               a == lastOk'.who
           IN /\ PendingDeposits'[<<o, a>>]
                     = Some(DepositOf(PendingDeposits, o, a) + lastOk'.amount)
              /\ Freezes'[<<o, a>>] = Freezes[<<o, a>>] + lastOk'.amount
              /\ \A k \in OperatorIds \X Accounts :
                    k # <<o, a>>
                        => /\ PendingDeposits'[k] = PendingDeposits[k]
                           /\ Freezes'[k] = Freezes[k]

\* What is frozen under an operator's freeze identity is the pending deposit.
FrozenIsDeposit ==
    \A o \in OperatorIds : \A a \in Accounts :
        Freezes[<<o, a>>] = DepositOf(PendingDeposits, o, a)

\* C32: a successful nominate_operator(nominator, op, amount) sets
\* PendingDeposits[op, nominator] to its previous value (0 when absent) plus
\* amount and raises the balance frozen on the nominator under op's freeze
\* identity by exactly amount; starting from the empty ledger the balance
\* frozen on an account under an operator's freeze identity equals
\* PendingDeposits[op, account] after any sequence of calls, and repeated
\* nominations by one account yield a single combined entry.
TheoremC32 ==
    /\ [](NoShares => FrozenIsDeposit)
    /\ [][NominationEffect]_vars

\* Account 0 has nominated operator 0, registered by account 1, twice: one
\* entry holds more than the last amount, and as much is frozen.
WitnessC32 ==
    /\ NoShares
    /\ lastOk.op = "nominate_operator" /\ lastOk.who = 0 /\ lastOk.operator_id = 0
    /\ IsOwner(1, 0)
    /\ DepositOf(PendingDeposits, 0, 0) > lastOk.amount
    /\ Freezes[<<0, 0>>] = DepositOf(PendingDeposits, 0, 0)

\* ---------------------------------------------- the nominator's minimum
\* nominate_operator(a, o, b) on a pool that is not frozen: the pending
\* deposit and b are added up first, the sum is held against the pool's
\* minimum next, and only then is the balance looked at.
MinimumOnTotal(o, a, b, ok) ==
    LET r == do_nominate_operator(Storage, o, a, b, ok)
        total == DepositOf(PendingDeposits, o, a) + b
        minimum == PoolOf(o).minimum_nominator_stake
    IN /\ total > MaxBalance => r.res = "BalanceOverflow"
       /\ r.res = "MinimumNominatorStake" <=> (total <= MaxBalance /\ total < minimum)
       /\ r.res = "MinimumNominatorStake" => r.st = Storage
       /\ ( /\ total <= MaxBalance /\ total >= minimum
            /\ b <= UsableBalance(a) /\ Freezes[<<o, a>>] + b <= MaxBalance /\ ok )
              => /\ r.res = "Ok"
                 /\ r.st.PendingDeposits[<<o, a>>] = Some(total)

\* C33: nominate_operator on an existing pool that is not frozen fails with
\* MinimumNominatorStake exactly when the nominator's pending deposit plus
\* the amount is below the pool's minimum_nominator_stake (BalanceOverflow
\* when the sum overflows), before any balance is frozen; a top-up smaller
\* than the minimum succeeds once the cumulative deposit reaches the minimum;
\* on an operator id without pool it fails with UnknownOperator.
TheoremC33 ==
    \A o \in OperatorIds : \A a \in Accounts : \A b \in Balances : \A ok \in BOOLEAN :
        /\ ~HasPool(o) => do_nominate_operator(Storage, o, a, b, ok).res = "UnknownOperator"
        /\ (HasPool(o) /\ ~Frozen(o)) => MinimumOnTotal(o, a, b, ok)

\* An account has topped up its deposit with less than the pool's minimum;
\* the same amount from an account without deposit is below the minimum,
\* whether or not it could be frozen, the largest amount on top of the
\* deposit overflows, and the next id has no pool.
WitnessC33 ==
    \E o \in OperatorIds : \E a \in Accounts :
        /\ lastOk.op = "nominate_operator" /\ lastOk.operator_id = o /\ lastOk.who # a
        /\ HasPool(o) /\ ~Frozen(o)
        /\ lastOk.amount < PoolOf(o).minimum_nominator_stake
        /\ ~IsSome(PendingDeposits[<<o, a>>])
        /\ do_nominate_operator(Storage, o, a, lastOk.amount, FALSE).res
               = "MinimumNominatorStake"
        /\ do_nominate_operator(Storage, o, lastOk.who, MaxBalance, TRUE).res
               = "BalanceOverflow"
        /\ ~HasPool(NextOperatorId)
        /\ do_nominate_operator(Storage, NextOperatorId, a, lastOk.amount, TRUE).res
               = "UnknownOperator"

TheoremC35 ==
    \A o \in OperatorIds : \A a \in Accounts : \A w \in AllIntents :
        LET r == do_withdraw_stake(Storage, o, a, w)
        IN /\ r.res = IF ~HasPool(o) THEN "UnknownOperator"
                      ELSE IF Frozen(o) THEN "OperatorPoolFrozen"
                      ELSE IF ~HasNominator(o, a) THEN "UnknownNominator"
                      ELSE r.res
           /\ ~HasNominator(o, a) => r.st = Storage /\ ~IsSome(Pending(o, a))

\* An account has just registered an operator: the owner has a pending
\* deposit and no Nominators entry, its withdrawals are UnknownNominator, and
\* the next id, without pool, is an UnknownOperator.
WitnessC35 ==
    \E o \in OperatorIds : \E a \in Accounts :
        /\ lastOk.op = "register_operator" /\ lastOk.who = a /\ lastOk.ret = Some(o)
        /\ IsOwner(a, o) /\ HasPool(o) /\ ~Frozen(o)
        /\ IsSome(PendingDeposits[<<o, a>>]) /\ ~HasNominator(o, a)
        /\ \A w \in AllIntents : do_withdraw_stake(Storage, o, a, w).res = "UnknownNominator"
        /\ ~HasPool(NextOperatorId)
        /\ do_withdraw_stake(Storage, NextOperatorId, a, WithdrawAll).res = "UnknownOperator"

\* ------------------------------------------------- pruning at the limit
\* C36: when prune_chain_from_header fails with ArithmeticError(Overflow),
\* the number of the frontier being the largest representable one, the
\* store is left as it was before the call: neither the given header nor
\* any descendant has been pruned.
OriginalC36 ==
    \A e \in store.headers :
        LET r == prune_chain_from_header(store, e)
        IN r.res = "ArithmeticError(Overflow)" => r.st = store /\ r.calls = {}

\* ------------------------------------------------------- next_operators
\* The operator is queued for a switch of domain.
SwitchPending(o) ==
    \/ PoolOf(o).next_domain_id # PoolOf(o).current_domain_id
    \/ \E d \in DomainIds : Contains(SwitchesOf(PendingOperatorSwitches, d), o)

\* Every id listed in next_operators of a domain has a pool that is not
\* frozen, is on that domain and is not queued for a switch.
ListedAreActive ==
    \A d \in DomainIds :
        LET next == NextOperators(DomainStakingSummary, d)
        IN \A i \in 1..Len(next) :
              /\ HasPool(next[i]) /\ ~Frozen(next[i])
              /\ PoolOf(next[i]).current_domain_id = d
              /\ ~SwitchPending(next[i])

\* No id is listed twice, in one list or in the lists of two domains.
ListedOnce ==
    \A d \in DomainIds : \A e \in DomainIds :
        LET next == NextOperators(DomainStakingSummary, d)
            other == NextOperators(DomainStakingSummary, e)
        IN \A i \in 1..Len(next) : \A j \in 1..Len(other) :
              next[i] = other[j] => (d = e /\ i = j)

\* C37: after any sequence of register, nominate, switch, deregister and
\* withdraw calls, every operator id listed in a domain's next_operators has
\* an existing pool that is not frozen, whose current_domain_id is that
\* domain and which has no pending switch, and no operator id appears more
\* than once in a next_operators list or in the lists of two domains.
TheoremC37 == ListedAreActive /\ ListedOnce

\* Two operators are registered, one on each domain; the one of domain 0 has
\* just switched or deregistered and is listed nowhere, the one of domain 1
\* is the only id listed.
WitnessC37 ==
    /\ lastOk.op \in {"switch_operator_domain", "deregister_operator"}
    /\ HasPool(lastOk.operator_id)
    /\ PoolOf(lastOk.operator_id).current_domain_id = 0
    /\ NextOperators(DomainStakingSummary, 0) = <<>>
    /\ Len(NextOperators(DomainStakingSummary, 1)) = 1
    /\ NextOperators(DomainStakingSummary, 1)[1] # lastOk.operator_id

\* ------------------------------------------- the owner never leaves whole
\* The owner of a pool has no All pending on it.
OwnerNeverAll ==
    \A o \in OperatorIds : \A a \in Accounts :
        (HasPool(o) /\ IsOwner(a, o)) => ~PendingAll(o, a)

\* A partial withdraw_stake that leaves All behind is not the owner's.
PromotionNotOwner ==
    ( /\ lastOk'.op = "withdraw_stake" /\ lastOk'.withdraw.kind = "Some"
      /\ PendingWithdrawals'[<<lastOk'.operator_id, lastOk'.who>>] = Some(WithdrawAll) )
        => OperatorIdOwner[lastOk'.operator_id] # Some(lastOk'.who)

\* C38: after any sequence of withdraw_stake calls the PendingWithdrawals
\* entry of a pool's owner on its own pool is never All, it is absent or
\* Some(w); a partial withdrawal is promoted to All only for nominators
\* other than the owner.
TheoremC38 == []OwnerNeverAll /\ [][PromotionNotOwner]_vars

\* The owner has a partial withdrawal pending, and the partial withdrawal
\* the other nominator has just made is stored as All.
WitnessC38 ==
    \E o \in OperatorIds : \E a \in Accounts :
        /\ IsOwner(a, o) /\ PendingSome(o, a)
        /\ lastOk.op = "withdraw_stake" /\ lastOk.operator_id = o /\ lastOk.who # a
        /\ lastOk.withdraw.kind = "Some"
        /\ PendingAll(o, lastOk.who)

\* ------------------------------------------------------ pending switches
\* How often an operator id is queued in PendingOperatorSwitches, over the
\* lists of all domains.
TimesQueued(o) ==
    SumOver([d \in DomainIds |->
                Cardinality({i \in 1..Len(SwitchesOf(PendingOperatorSwitches, d)) :
                                SwitchesOf(PendingOperatorSwitches, d)[i] = o})],
            DomainIds)

\* C39: an operator id appears at most once in PendingOperatorSwitches, and
\* only in the list of its pool's current_domain_id with next_domain_id
\* different from current_domain_id: repeated switch_operator_domain calls by
\* the owner (to another domain, back to the current one, or to the same
\* target twice) create no duplicate entries.
OriginalC39 ==
    \A o \in OperatorIds :
        /\ TimesQueued(o) <= 1
        /\ \A d \in DomainIds :
              Contains(SwitchesOf(PendingOperatorSwitches, d), o)
                  => /\ HasPool(o)
                     /\ PoolOf(o).current_domain_id = d
                     /\ PoolOf(o).next_domain_id # d

\* ---------------------------------------------------- numbers of headers
\* C40: every stored header but genesis has the number of its parent plus
\* one, which prune_chain_from_header and find_ancestor_of_header_at_number
\* rely on: import_header rejects a header whose number is not
\* parent.number + 1.
OriginalC40 ==
    /\ \A e \in store.headers :
          e.header # GenesisHeader
              => e.header.number = NumberOf(store, e.header.parent_hash) + 1
    /\ \A header \in Candidates(store) :
          ( /\ IsSome(header_of(store, header.parent_hash))
            /\ header.number # NumberOf(store, header.parent_hash) + 1 )
              => import_header(store, header).res # "Ok"

\* ------------------------------------------------ reads during a write
\* What read_piece_index and read_piece return for a slot holding a record.
Returned(record) ==
    [ piece_index |-> read_piece_index(Some(<<record>>), 1, 0),
      piece |-> read_piece(Some(<<record>>), 1, 0) ]

====
